---------------------------- MODULE Spec2Model ----------------------------
(***************************************************************************)
(* A model of the mini-mail server: the inbound SMTP session               *)
(* (smtp/server.go), the mail handler (main.go), the mail/domain store     *)
(* (storage) and the mailbox/DNS provisioning services (services).         *)
(*                                                                         *)
(* Strings are sequences of one-character strings, so that the string      *)
(* functions the code calls (TrimSpace, SplitN, ToUpper, HasPrefix,        *)
(* HasSuffix, TrimSuffix, Trim) are computed and not assumed.              *)
(***************************************************************************)
EXTENDS Integers, Sequences, FiniteSets, TLC

VARIABLES
  \* ---- one inbound SMTP session (smtp/server.go, smtpSession) ----
  wire,        \* bytes the client has sent that no Read has returned yet
  pc,          \* "cmd": in handle's loop; "data": in receiveData's loop; "closed"
  mailFrom,    \* smtpSession.mailFrom
  rcptTo,      \* smtpSession.rcptTo
  dataBuffer,  \* smtpSession.dataBuffer
  out,         \* the reply lines written to the connection, as reply codes
  saveLog,     \* the SaveMail calls the Mail Store has received, in order
  script,      \* history: the lines the client sends in this session
  misaligned,  \* history: reads so far that did not end at a line end
  last,        \* history: what the last Read handed to the session
  senderSet,   \* history: a MAIL FROM was accepted since the last reset
  peer,        \* a second session, of another connection: its smtpSession
  \* ---- provisioning (services, storage) ----
  rows,        \* table mail_domains
  nextId,      \* AUTOINCREMENT counter of mail_domains
  dnsNil,      \* MailDNSService.dnsService == nil
  subdomainMap,\* DNSPodService.subdomainMap
  portMap,     \* DNSPodService.portMap
  recordMap,   \* DNSPodService.recordMap
  provRecords, \* the records that exist at the DNS provider
  provNextId,  \* the provider's next record id
  proc,        \* per caller: the call in progress, its locals and its result
  calls,       \* per caller: calls completed
  dnsLog,      \* history: the provider calls issued
  done,        \* history, per caller: its calls that have returned, in order
  lastGen,     \* history: the last GenerateSubdomain call
  \* ---- the management API (api/server.go) and table users ----
  domainCount, \* users.domain_count, by user id
  api,         \* per caller: the API request in progress and its response
  \* ---- the outbound relay (smtp, MailForwarder) ----
  relay,       \* the Forward call: its position, its locals and its result
  reach,       \* the network: per host and port, how far a connection gets
  dials        \* history: the connections Forward has tried, in order

smtpVars == <<wire, pc, mailFrom, rcptTo, dataBuffer, out, saveLog, script,
              misaligned, last, senderSet, peer>>
provVars == <<rows, nextId, dnsNil, subdomainMap, portMap, recordMap,
              provRecords, provNextId, proc, calls, dnsLog, done, lastGen>>
apiVars == <<domainCount, api>>
relayVars == <<relay, reach, dials>>
extVars == <<apiVars, relayVars>>
vars == <<smtpVars, provVars, extVars>>

(***************************************************************************)
(* Bounds of the model.                                                    *)
(***************************************************************************)
\* Reads of one session that may end somewhere else than at a line end.
MaxMisaligned == 1
\* A misaligned read ends at most this many bytes after a line start or
\* before a line end, or returns at most this many whole lines at once.
MaxFrag == 3
\* Recipients of one scripted transaction.
MaxRcpt == 2
\* Command lines a session gives before its message.
MaxCmds == 3
\* Commands and messages a connection sends after its first envelope.
MaxItems == 3
\* Mail-exchange records the resolver returns for one domain.
MaxMx == 2
\* Calls the callers of the provisioning services make in all.
MaxCalls == 2
\* The random source of one GenerateSubdomain call repeats after at most
\* this many attempts.
MaxCycle == 2
\* The random source draws charset indices 0..MaxDraw.
MaxDraw == 1

(***************************************************************************)
(* Go's strings package, on sequences of characters.                       *)
(***************************************************************************)
CR == "\r"
LF == "\n"
SP == " "
TAB == "\t"

LowerLetters == <<"a","b","c","d","e","f","g","h","i","j","k","l","m",
                  "n","o","p","q","r","s","t","u","v","w","x","y","z">>
UpperLetters == <<"A","B","C","D","E","F","G","H","I","J","K","L","M",
                  "N","O","P","Q","R","S","T","U","V","W","X","Y","Z">>

ToUpperChar(c) ==
  IF \E i \in 1..Len(LowerLetters) : LowerLetters[i] = c
  THEN UpperLetters[CHOOSE i \in 1..Len(LowerLetters) : LowerLetters[i] = c]
  ELSE c

\* strings.ToUpper
ToUpper(s) == [i \in 1..Len(s) |-> ToUpperChar(s[i])]

\* unicode.IsSpace, for the bytes that occur
IsSpace(c) == c \in {SP, TAB, CR, LF}

Drop(s, n) == SubSeq(s, n + 1, Len(s))
Take(s, n) == SubSeq(s, 1, n)

\* strings.HasPrefix / strings.HasSuffix
HasPrefix(s, p) == Len(s) >= Len(p) /\ Take(s, Len(p)) = p
HasSuffix(s, p) == Len(s) >= Len(p) /\ Drop(s, Len(s) - Len(p)) = p

\* strings.TrimSuffix
TrimSuffix(s, p) == IF HasSuffix(s, p) THEN Take(s, Len(s) - Len(p)) ELSE s

\* The number of leading (trailing) characters of s that lie in cutset.
RECURSIVE LeadIn(_, _)
LeadIn(s, cutset) ==
  IF s # <<>> /\ s[1] \in cutset THEN 1 + LeadIn(Tail(s), cutset) ELSE 0
RECURSIVE TrailIn(_, _)
TrailIn(s, cutset) ==
  IF s # <<>> /\ s[Len(s)] \in cutset
  THEN 1 + TrailIn(Take(s, Len(s) - 1), cutset) ELSE 0

\* strings.Trim(s, cutset), strings.TrimLeft
TrimLeft(s, cutset) == Drop(s, LeadIn(s, cutset))
TrimRight(s, cutset) == Take(s, Len(s) - TrailIn(s, cutset))
Trim(s, cutset) == TrimRight(TrimLeft(s, cutset), cutset)

\* strings.TrimSpace
TrimSpace(s) == Trim(s, {SP, TAB, CR, LF})

\* strings.Index(s, c) for a one-byte separator: 0 when c does not occur.
RECURSIVE IndexOf(_, _)
IndexOf(s, c) ==
  IF s = <<>> THEN 0
  ELSE IF s[1] = c THEN 1
  ELSE LET r == IndexOf(Tail(s), c) IN IF r = 0 THEN 0 ELSE r + 1

\* strings.SplitN(s, sep, 2) for a one-byte separator
CutAt(s, i) == IF i = 0 THEN <<s>> ELSE <<Take(s, i - 1), Drop(s, i)>>
SplitN2(s, sep) == CutAt(s, IndexOf(s, sep))

\* strings.Split(s, sep) for a one-byte separator
RECURSIVE Split(_, _)
Split(s, sep) ==
  IF IndexOf(s, sep) = 0 THEN <<s>>
  ELSE <<CutAt(s, IndexOf(s, sep))[1]>> \o Split(CutAt(s, IndexOf(s, sep))[2], sep)

\* The concatenation of a sequence of strings.
RECURSIVE Concat(_)
Concat(ss) == IF ss = <<>> THEN <<>> ELSE Head(ss) \o Concat(Tail(ss))

(***************************************************************************)
(* net/mail.ReadMessage and net/textproto.ReadMIMEHeader (go 1.23), as     *)
(* far as processMailData depends on them: whether the data parse, the     *)
(* Subject header and the body.                                            *)
(***************************************************************************)
\* bufio.Reader.ReadLine: the line without its "\r\n" or "\n", and the rest.
LineAt(s, i) ==
  IF i = 0 THEN [line |-> s, rest |-> <<>>]
  ELSE [line |-> IF i > 1 /\ s[i - 1] = CR THEN Take(s, i - 2)
                 ELSE Take(s, i - 1),
        rest |-> Drop(s, i)]
ReadLine(s) == LineAt(s, IndexOf(s, LF))

\* readContinuedLineSlice: a header line with its continuation lines (lines
\* that start with a space or a tab) joined to it by one space.
RECURSIVE ContinuedLine(_, _)
ContinuedLine(acc, rest) ==
  IF rest # <<>> /\ rest[1] \in {SP, TAB}
  THEN ContinuedLine(acc \o <<SP>> \o Trim(ReadLine(rest).line, {SP, TAB}),
                     ReadLine(rest).rest)
  ELSE [line |-> acc, rest |-> rest]

\* validHeaderFieldByte / validHeaderValueByte, for the bytes that occur
ValidFieldByte(c) == c \notin {SP, TAB, CR, LF, ":", "<", ">", "@"}
ValidValueByte(c) == c \notin {CR, LF}

\* canonicalMIMEHeaderKey: the key is usable; a space in it is accepted.
KeyOk(k) == k # <<>> /\ \A i \in 1..Len(k) : ValidFieldByte(k[i]) \/ k[i] = SP
KeyCanon(k) == \A i \in 1..Len(k) : ValidFieldByte(k[i])

\* ReadMIMEHeader's loop: hdrs are the [key, value] pairs read so far.
\* err is "" (the blank line was read), "EOF" or "malformed".
RECURSIVE ReadHeaderLoop(_, _)
\* One "key: value" line kv, cut at its first colon c, followed by rest.
HeaderField(kv, c, rest, hdrs) ==
  IF kv = <<>> THEN [hdrs |-> hdrs, rest |-> rest, err |-> ""]
  ELSE IF c = 0 \/ ~KeyOk(Take(kv, c - 1))
               \/ \E i \in c + 1..Len(kv) : ~ValidValueByte(kv[i])
  THEN [hdrs |-> hdrs, rest |-> rest, err |-> "malformed"]
  ELSE ReadHeaderLoop(rest,
         Append(hdrs, [key |-> Take(kv, c - 1),
                       value |-> TrimLeft(Drop(kv, c), {SP, TAB})]))
HeaderLine(cl, hdrs) == HeaderField(cl.line, IndexOf(cl.line, ":"), cl.rest, hdrs)
HeaderFirst(first, hdrs) ==
  IF first.line = <<>>
  THEN [hdrs |-> hdrs, rest |-> first.rest, err |-> ""]
  ELSE HeaderLine(ContinuedLine(Trim(first.line, {SP, TAB}), first.rest), hdrs)
ReadHeaderLoop(s, hdrs) ==
  IF s = <<>> THEN [hdrs |-> hdrs, rest |-> <<>>, err |-> "EOF"]
  ELSE HeaderFirst(ReadLine(s), hdrs)

\* ReadMIMEHeader: the first line cannot start with a space.
ReadMIMEHeader(s) ==
  IF s # <<>> /\ s[1] \in {SP, TAB}
  THEN [hdrs |-> <<>>, rest |-> <<>>, err |-> "malformed"]
  ELSE ReadHeaderLoop(s, <<>>)

SubjectKey == <<"S","U","B","J","E","C","T">>

\* Header.Get("Subject"): the first value under the canonical key.
SubjectAt(hdrs) == {i \in 1..Len(hdrs) :
                      KeyCanon(hdrs[i].key) /\ ToUpper(hdrs[i].key) = SubjectKey}
FirstOf(hdrs, hit) ==
  IF hit = {} THEN <<>>
  ELSE hdrs[CHOOSE i \in hit : \A j \in hit : i <= j].value
HeaderGetSubject(hdrs) == FirstOf(hdrs, SubjectAt(hdrs))

\* mail.ReadMessage followed by io.ReadAll(msg.Body) and Header.Get:
\* an error unless the header block ended cleanly, or at EOF with a header.
MessageOf(h) ==
  IF h.err = "malformed" \/ (h.err = "EOF" /\ h.hdrs = <<>>)
  THEN [ok |-> FALSE, subject |-> <<>>, body |-> <<>>]
  ELSE [ok |-> TRUE, subject |-> HeaderGetSubject(h.hdrs), body |-> h.rest]
ReadMessage(data) == MessageOf(ReadMIMEHeader(data))

(***************************************************************************)
(* The callers of the services and of the API, and table users             *)
(* (storage/user.go): each caller acts for one user.                       *)
(***************************************************************************)
Procs == {"p1", "p2"}
\* Each caller acts for one tenant: users.id
UserOf(p) == IF p = "p1" THEN 7 ELSE 8
Users == {UserOf(p) : p \in Procs}

AdminEmail == <<"a","d","m","i","n","@","a","d","m","i","n",".","c","o","m">>
\* users.email, the X-User-Email header of the caller's requests: caller p2
\* is the administrator.
UserEmailOf(p) == IF p = "p1" THEN <<"u","@","d">> ELSE AdminEmail

\* GetUserByEmail: SELECT ... FROM users WHERE email = ?, as the sequence of
\* the ids returned: <<>> (sql.ErrNoRows) or one id.
GetUserByEmail(email) ==
  IF \E p \in Procs : UserEmailOf(p) = email
  THEN << UserOf(CHOOSE p \in Procs : UserEmailOf(p) = email) >>
  ELSE << >>

(***************************************************************************)
(* The Mail/Domain Store as the mail handler uses it                       *)
(* (storage/storage.go, storage mail_domain functions).                    *)
(***************************************************************************)
\* GetMailDomainByEmail: SELECT ... WHERE email = ? LIMIT 1, as the sequence
\* of the rows returned: <<>> (sql.ErrNoRows, nil is returned) or one row.
GetMailDomainByEmail(tbl, email) ==
  IF \E r \in tbl : r.email = email
  THEN << CHOOSE r \in tbl : r.email = email >>
  ELSE << >>

\* The owner as a superseded copy of the handler computes it: the id of the
\* user whose account address is the address of the mailbox found.
OwnerOfViaUser(domain) ==
  IF domain # << >> /\ GetUserByEmail(domain[1].email) # << >>
  THEN GetUserByEmail(domain[1].email)[1] ELSE 0
\* MailHandler.HandleMail: the owner is looked up by the first recipient;
\* lookupErr and saveOk are the store's outcomes. The SaveMail call made
\* (lookupErr is kept with it as history).
OwnerOf(domain) == IF domain # << >> THEN domain[1].userID ELSE 0
HandleMail(msg, tbl, lookupErr, saveOk) ==
  [userID |-> OwnerOf(IF msg.to # <<>> /\ ~lookupErr
                      THEN GetMailDomainByEmail(tbl, msg.to[1]) ELSE << >>),
   from |-> msg.from, to |-> msg.to,
   subject |-> msg.subject, body |-> msg.body, raw |-> msg.raw,
   ok |-> saveOk, lookupErr |-> lookupErr /\ msg.to # <<>>,
   looked |-> IF msg.to # <<>> THEN <<msg.to[1]>> ELSE << >>]

(***************************************************************************)
(* The SMTP session (smtp/server.go).                                      *)
(***************************************************************************)
BufSize == 4096

CRLF == <<CR, LF>>
DotCRLF == <<CR, LF, ".", CR, LF>>
DotLF == <<LF, ".", LF>>

\* extractEmail
extractEmail(s) == Trim(TrimSpace(s), {"<", ">"})

Verb(line) == ToUpper(SplitN2(line, SP)[1])
Second(parts) == IF Len(parts) > 1 THEN parts[2] ELSE <<>>
Arg(line) == Second(SplitN2(line, SP))

\* A reset that forgets the recipients and the data but keeps the sender.
resetKeepingSender(s) == [s EXCEPT !.rcptTo = <<>>, !.dataBuffer = <<>>]
\* smtpSession.reset
reset(s) == [s EXCEPT !.mailFrom = <<>>, !.rcptTo = <<>>, !.dataBuffer = <<>>]

\* smtpSession.processCommand on a session record s = [mailFrom, rcptTo,
\* dataBuffer]: the session after the command, the replies written, whether
\* handle goes on (FALSE after QUIT) and whether receiveData was entered.
CmdResult(s, replies, cont, data) ==
  [s |-> s, replies |-> replies, cont |-> cont, data |-> data]

Dispatch(s, cmd, arg) ==
     CASE cmd \in {<<"H","E","L","O">>, <<"E","H","L","O">>} ->
            CmdResult(s, <<250>>, TRUE, FALSE)
       [] cmd = <<"M","A","I","L">> ->
            IF HasPrefix(ToUpper(arg), <<"F","R","O","M",":">>)
            THEN CmdResult([s EXCEPT !.mailFrom = extractEmail(Drop(arg, 5))],
                           <<250>>, TRUE, FALSE)
            ELSE CmdResult(s, <<501>>, TRUE, FALSE)
       [] cmd = <<"R","C","P","T">> ->
            IF HasPrefix(ToUpper(arg), <<"T","O",":">>)
            THEN CmdResult([s EXCEPT !.rcptTo =
                              Append(s.rcptTo, extractEmail(Drop(arg, 3)))],
                           <<250>>, TRUE, FALSE)
            ELSE CmdResult(s, <<501>>, TRUE, FALSE)
       [] cmd = <<"D","A","T","A">> ->
            CmdResult([s EXCEPT !.dataBuffer = <<>>], <<354>>, TRUE, TRUE)
       [] cmd = <<"Q","U","I","T">> -> CmdResult(s, <<221>>, FALSE, FALSE)
       [] cmd = <<"R","S","E","T">> -> CmdResult(reset(s), <<250>>, TRUE, FALSE)
       [] cmd = <<"N","O","O","P">> -> CmdResult(s, <<250>>, TRUE, FALSE)
       [] OTHER -> CmdResult(s, <<500>>, TRUE, FALSE)
\* A processCommand that returns true after every command.
processCommandGoesOn(s, line) ==
  [Dispatch(s, Verb(line), Arg(line)) EXCEPT !.cont = TRUE]
processCommand(s, line) == Dispatch(s, Verb(line), Arg(line))

\* receiveData's test for the end of the data, on the accumulated buffer
DataComplete(data) == HasSuffix(data, DotCRLF) \/ HasSuffix(data, DotLF)
\* ... and the removal of the end marker
StripEnd(data) == TrimSuffix(TrimSuffix(data, DotCRLF), DotLF)

\* A processMailData that hands the data to the handler without looking at
\* the error of mail.ReadMessage.
HandledUnparsed(msg, call) ==
  IF ~call.ok THEN [reply |-> 550, calls |-> <<call>>]
  ELSE [reply |-> 250, calls |-> <<call>>]
\* smtpSession.processMailData: the reply written and the SaveMail calls
\* made (none or one), for data already stripped of the end marker.
Handled(msg, call) ==
  IF ~msg.ok THEN [reply |-> 550, calls |-> << >>]
  ELSE IF ~call.ok THEN [reply |-> 550, calls |-> <<call>>]
  ELSE [reply |-> 250, calls |-> <<call>>]
Parsed(s, data, msg, tbl, lookupErr, saveOk) ==
  Handled(msg, HandleMail([from |-> s.mailFrom, to |-> s.rcptTo,
                           subject |-> msg.subject, body |-> msg.body,
                           raw |-> data], tbl, lookupErr, saveOk))
processMailData(s, data, tbl, lookupErr, saveOk) ==
  Parsed(s, data, ReadMessage(data), tbl, lookupErr, saveOk)

(***************************************************************************)
(* The clients of the session: what one connection sends.                  *)
(***************************************************************************)
AddrA == <<"a","@","d">>
AddrB == <<"b","@","d">>
AddrC == <<"c","@","d">>
\* The provisioned address in another letter case
AddrUpperB == <<"B","@","d">>
Rcpts == {AddrB, AddrC}

LHelo == <<"H","E","L","O"," ","x">>
LMail(a) == <<"M","A","I","L"," ","F","R","O","M",":","<">> \o a \o <<">">>
LRcpt(a) == <<"R","C","P","T"," ","T","O",":","<">> \o a \o <<">">>
LData == <<"D","A","T","A">>
LDot == <<".">>
LQuit == <<"Q","U","I","T">>
LSubject == <<"S","u","b","j","e","c","t",":"," ","s">>
LBody == <<"h","i">>

\* Messages, as their lines: with a body, headers only, without header, empty.
Messages == { <<LSubject, <<>>, LBody>>, <<LSubject>>, <<LBody>>, <<>> }

RcptSeqs == UNION { [1..n -> Rcpts] : n \in 1..MaxRcpt }

\* HELO, MAIL FROM, RCPT TO (one or more), DATA, the message, ".", QUIT
Transaction(rs, m) ==
  <<LHelo, LMail(AddrA)>> \o [i \in 1..Len(rs) |-> LRcpt(rs[i])]
    \o <<LData>> \o m \o <<LDot, LQuit>>

ValidScripts == { Transaction(rs, m) : rs \in RcptSeqs, m \in Messages }

\* Sessions that break the command sequence.
OtherScripts == { <<LHelo, LRcpt(AddrB), LQuit>> }

Scripts == ValidScripts \cup OtherScripts

\* Sessions that give commands in any order: up to MaxCmds lines of HELO,
\* EHLO (in lower case), MAIL FROM, RCPT TO and RSET, and then nothing more,
\* or DATA, a message (one that parses, one that does not), "." and NOOP.
LEhlo == <<"e","h","l","o"," ","x">>
LRset == <<"R","S","E","T">>
LNoop == <<"N","O","O","P">>
CmdLines == {LHelo, LEhlo, LMail(AddrA), LMail(AddrC),
             LRcpt(AddrB), LRcpt(AddrC), LRcpt(AddrUpperB), LRset}
Preludes == UNION { [1..n -> CmdLines] : n \in 0..MaxCmds }
Endings == { <<>> } \cup
           { <<LData>> \o m \o <<LDot, LNoop>> : m \in {<<LSubject>>, <<LBody>>} }
CmdScripts == { pre \o e : pre \in Preludes, e \in Endings }

\* Connections that go on after a message or a QUIT: an envelope (none, one
\* with one recipient, one with two, recipients without a sender) and then
\* up to MaxItems items, each a command line (MAIL FROM, RCPT TO, NOOP, a
\* verb processCommand does not know, QUIT) or DATA with a message, one that
\* parses or one that does not, and its "." line.
LVrfy == <<"V","R","F","Y"," ","x">>
BlockOk == <<LData, LSubject, <<>>, LBody, LDot>>
BlockBad == <<LData, LBody, LDot>>
Items == { <<LMail(AddrC)>>, <<LRcpt(AddrC)>>, <<LNoop>>, <<LVrfy>>, <<LQuit>>,
           BlockOk, BlockBad }
Envelopes == { <<>>,
               <<LHelo, LMail(AddrA), LRcpt(AddrB)>>,
               <<LHelo, LMail(AddrA), LRcpt(AddrB), LRcpt(AddrC)>>,
               <<LRcpt(AddrC), LRcpt(AddrB)>> }
ConnScripts ==
  { env \o Concat(its) :
      env \in Envelopes, its \in UNION { [1..n -> Items] : n \in 0..MaxItems } }

\* Two connections with one message each for the mailbox b@d: the first
\* from a@d, to b@d or to b@d and c@d; the second the same message as the
\* first, or another from c@d. A client ends with QUIT or closes the
\* connection after the message.
LOther == <<"y","o">>
PairScripts ==
  { Transaction(<<AddrB>>, <<LSubject, <<>>, LBody>>),
    Transaction(<<AddrB, AddrC>>, <<LSubject, <<>>, LBody>>),
    <<LHelo, LMail(AddrA), LRcpt(AddrB), LData, LSubject, <<>>, LBody, LDot>> }
PeerScripts ==
  { Transaction(<<AddrB>>, <<LSubject, <<>>, LBody>>),
    <<LHelo, LMail(AddrC), LRcpt(AddrB), LData, LSubject, <<>>, LOther,
      LDot, LQuit>>,
    <<LHelo, LMail(AddrC), LRcpt(AddrB), LData, LSubject, <<>>, LOther,
      LDot>> }

\* The bytes of a script: every line ends in CRLF.
Encode(lines) == Concat([i \in 1..Len(lines) |-> lines[i] \o CRLF])

(***************************************************************************)
(* The session's steps: one per Read of the connection.                    *)
(***************************************************************************)
Session == [mailFrom |-> mailFrom, rcptTo |-> rcptTo, dataBuffer |-> dataBuffer]

Min(a, b) == IF a < b THEN a ELSE b

\* The end of the first line of w (all of w when it holds no line end).
LineEnd(w) == IF IndexOf(w, LF) = 0 THEN Len(w) ELSE IndexOf(w, LF)
\* The end of the j-th line of w.
RECURSIVE NthLineEnd(_, _)
NthLineEnd(w, j) ==
  IF j <= 1 \/ LineEnd(w) = Len(w) THEN LineEnd(w)
  ELSE LineEnd(w) + NthLineEnd(Drop(w, LineEnd(w)), j - 1)

\* Where a Read that does not return exactly one line may end.
MisalignedCuts(w) ==
  (((1..MaxFrag) \cup {LineEnd(w) - k : k \in 1..MaxFrag}
      \cup {NthLineEnd(w, j) : j \in 2..MaxFrag})
     \cap (1..Min(Len(w), BufSize))) \ {LineEnd(w)}

\* handle's loop body for a Read that returned the first n bytes of wire:
\* line is the trimmed text read, r the result of processCommand on it.
HandleLine(n, line, verb, r) ==
  /\ wire' = Drop(wire, n)
  /\ last' = [kind |-> IF line = <<>> THEN "blank" ELSE "cmd",
              line |-> line, from |-> mailFrom, rcpt |-> rcptTo,
              sender |-> senderSet, nout |-> Len(out)]
  /\ IF line = <<>>
     THEN UNCHANGED <<pc, mailFrom, rcptTo, dataBuffer, out, senderSet>>
     ELSE /\ mailFrom' = r.s.mailFrom
          /\ rcptTo' = r.s.rcptTo
          /\ dataBuffer' = r.s.dataBuffer
          /\ out' = out \o r.replies
          /\ pc' = IF ~r.cont THEN "closed"
                   ELSE IF r.data THEN "data" ELSE "cmd"
          /\ senderSet' =
               IF verb = <<"M","A","I","L">> /\ r.replies = <<250>> THEN TRUE
               ELSE IF verb \in {<<"H","E","L","O">>, <<"E","H","L","O">>,
                                 <<"R","S","E","T">>} THEN FALSE
               ELSE senderSet
  /\ UNCHANGED <<saveLog, script>>
\* A loop body in which a command that is neither HELO/EHLO, MAIL, RCPT,
\* DATA nor QUIT resets the session.
HandleReadResetting(n) ==
  HandleLine(n, TrimSpace(Take(wire, n)), Verb(TrimSpace(Take(wire, n))),
             IF Verb(TrimSpace(Take(wire, n))) \in
                  {<<"H","E","L","O">>, <<"E","H","L","O">>, <<"M","A","I","L">>,
                   <<"R","C","P","T">>, <<"D","A","T","A">>, <<"Q","U","I","T">>}
             THEN processCommand(Session, TrimSpace(Take(wire, n)))
             ELSE [processCommand(Session, TrimSpace(Take(wire, n)))
                     EXCEPT !.s = reset(@)])
HandleRead(n) ==
  HandleLine(n, TrimSpace(Take(wire, n)), Verb(TrimSpace(Take(wire, n))),
             processCommand(Session, TrimSpace(Take(wire, n))))

\* A Read in handle that returns exactly the next line.
ReadLineAligned ==
  /\ pc = "cmd" /\ wire # <<>>
  /\ HandleRead(Min(LineEnd(wire), BufSize))
  /\ UNCHANGED <<misaligned, peer, provVars, extVars>>

\* A Read in handle that returns a part of a line or several lines.
ReadMisaligned ==
  /\ pc = "cmd" /\ wire # <<>> /\ misaligned < MaxMisaligned
  /\ \E n \in MisalignedCuts(wire) : HandleRead(n)
  /\ misaligned' = misaligned + 1
  /\ UNCHANGED <<peer, provVars, extVars>>

\* A Read in receiveData: any number of the bytes sent. When the buffer then
\* ends in the end marker: processMailData, reset, back to handle's loop.
\* A receiveData that does not reset the session after processMailData.
ReceiveDataKeepingEnvelope(n, data, r) ==
  /\ wire' = Drop(wire, n)
  /\ last' = [kind |-> "data",
              line |-> IF DataComplete(data) THEN StripEnd(data) ELSE <<>>,
              from |-> mailFrom, rcpt |-> rcptTo, sender |-> senderSet,
              nout |-> Len(out)]
  /\ IF DataComplete(data)
     THEN /\ out' = Append(out, r.reply)
          /\ saveLog' = saveLog \o r.calls
          /\ dataBuffer' = <<>>
          /\ pc' = "cmd"
          /\ UNCHANGED <<mailFrom, rcptTo, senderSet>>
     ELSE /\ dataBuffer' = data
          /\ UNCHANGED <<out, saveLog, mailFrom, rcptTo, senderSet, pc>>
ReceiveData(n, data, r) ==
  /\ wire' = Drop(wire, n)
  /\ last' = [kind |-> "data",
              line |-> IF DataComplete(data) THEN StripEnd(data) ELSE <<>>,
              from |-> mailFrom, rcpt |-> rcptTo, sender |-> senderSet,
              nout |-> Len(out)]
  /\ IF DataComplete(data)
     THEN /\ out' = Append(out, r.reply)
          /\ saveLog' = saveLog \o r.calls
          /\ mailFrom' = <<>> /\ rcptTo' = <<>> /\ dataBuffer' = <<>>
          /\ senderSet' = FALSE
          /\ pc' = "cmd"
     ELSE /\ dataBuffer' = data
          /\ UNCHANGED <<out, saveLog, mailFrom, rcptTo, senderSet, pc>>
ReadData ==
  /\ pc = "data" /\ wire # <<>>
  /\ \E n \in 1..Min(Len(wire), BufSize), lookupErr \in BOOLEAN, saveOk \in BOOLEAN :
       ReceiveData(n, dataBuffer \o Take(wire, n),
                   processMailData(Session, StripEnd(dataBuffer \o Take(wire, n)),
                                   rows, lookupErr, saveOk))
  /\ UNCHANGED <<script, misaligned, peer, provVars, extVars>>

\* A Read in receiveData that returns exactly the next line.
ReadDataLine ==
  /\ pc = "data" /\ wire # <<>>
  /\ \E lookupErr \in BOOLEAN, saveOk \in BOOLEAN :
       ReceiveData(Min(LineEnd(wire), BufSize),
                   dataBuffer \o Take(wire, Min(LineEnd(wire), BufSize)),
                   processMailData(Session,
                     StripEnd(dataBuffer \o Take(wire, Min(LineEnd(wire), BufSize))),
                     rows, lookupErr, saveOk))
  /\ UNCHANGED <<script, misaligned, peer, provVars, extVars>>

\* The client has closed the connection: Read returns io.EOF, in handle or
\* in receiveData, and handleConnection ends.
ReadEOF ==
  /\ pc \in {"cmd", "data"} /\ wire = <<>>
  /\ pc' = "closed"
  /\ last' = [kind |-> "eof", line |-> <<>>, from |-> mailFrom,
              rcpt |-> rcptTo, sender |-> senderSet, nout |-> Len(out)]
  /\ UNCHANGED <<wire, mailFrom, rcptTo, dataBuffer, out, saveLog, script,
                 misaligned, senderSet, peer, provVars, extVars>>

\* A second connection: handleConnection gives it a session of its own,
\* with the server's handler. No second connection is open in NoPeer.
NoPeer ==
  [script |-> << >>, wire |-> << >>, pc |-> "closed", mailFrom |-> << >>,
   rcptTo |-> << >>, dataBuffer |-> << >>, out |-> << >>]
\* A second session that has the sender of the first.
PeerSessionShared(p) ==
  [mailFrom |-> mailFrom, rcptTo |-> p.rcptTo, dataBuffer |-> p.dataBuffer]
\* The smtpSession of the second connection
PeerSession(p) ==
  [mailFrom |-> p.mailFrom, rcptTo |-> p.rcptTo, dataBuffer |-> p.dataBuffer]

\* handle's loop body in the second session, for a Read of n bytes
PeerHandled(p, n, line, r) ==
  IF line = << >> THEN [p EXCEPT !.wire = Drop(@, n)]
  ELSE [p EXCEPT !.wire = Drop(@, n),
                 !.mailFrom = r.s.mailFrom, !.rcptTo = r.s.rcptTo,
                 !.dataBuffer = r.s.dataBuffer,
                 !.out = @ \o r.replies,
                 !.pc = IF ~r.cont THEN "closed"
                        ELSE IF r.data THEN "data" ELSE "cmd"]
PeerReadLine ==
  /\ peer.pc = "cmd" /\ peer.wire # << >>
  /\ peer' = PeerHandled(peer, Min(LineEnd(peer.wire), BufSize),
                TrimSpace(Take(peer.wire, Min(LineEnd(peer.wire), BufSize))),
                processCommand(PeerSession(peer),
                  TrimSpace(Take(peer.wire, Min(LineEnd(peer.wire), BufSize)))))
  /\ UNCHANGED <<wire, pc, mailFrom, rcptTo, dataBuffer, out, saveLog, script,
                 misaligned, last, senderSet, provVars, extVars>>

\* receiveData's loop body in the second session
PeerReceived(p, n, data, r) ==
  IF DataComplete(data)
  THEN [p EXCEPT !.wire = Drop(@, n), !.out = Append(@, r.reply),
                 !.mailFrom = << >>, !.rcptTo = << >>, !.dataBuffer = << >>,
                 !.pc = "cmd"]
  ELSE [p EXCEPT !.wire = Drop(@, n), !.dataBuffer = data]
PeerSaved(log, data, r) == IF DataComplete(data) THEN log \o r.calls ELSE log
PeerReadData ==
  /\ peer.pc = "data" /\ peer.wire # << >>
  /\ \E lookupErr \in BOOLEAN, saveOk \in BOOLEAN :
       /\ peer' = PeerReceived(peer, Min(LineEnd(peer.wire), BufSize),
                     peer.dataBuffer \o
                       Take(peer.wire, Min(LineEnd(peer.wire), BufSize)),
                     processMailData(PeerSession(peer),
                       StripEnd(peer.dataBuffer \o
                         Take(peer.wire, Min(LineEnd(peer.wire), BufSize))),
                       rows, lookupErr, saveOk))
       /\ saveLog' = PeerSaved(saveLog,
                     peer.dataBuffer \o
                       Take(peer.wire, Min(LineEnd(peer.wire), BufSize)),
                     processMailData(PeerSession(peer),
                       StripEnd(peer.dataBuffer \o
                         Take(peer.wire, Min(LineEnd(peer.wire), BufSize))),
                       rows, lookupErr, saveOk))
  /\ UNCHANGED <<wire, pc, mailFrom, rcptTo, dataBuffer, out, script,
                 misaligned, last, senderSet, provVars, extVars>>

PeerReadEOF ==
  /\ peer.pc \in {"cmd", "data"} /\ peer.wire = << >>
  /\ peer' = [peer EXCEPT !.pc = "closed"]
  /\ UNCHANGED <<wire, pc, mailFrom, rcptTo, dataBuffer, out, saveLog, script,
                 misaligned, last, senderSet, provVars, extVars>>

(***************************************************************************)
(* Provisioning: the callers, their inputs and the outcomes of the store   *)
(* and of the DNS provider.                                                *)
(***************************************************************************)
Emails == {AddrB, AddrC}
Ports == {1, 2}
\* The apex domain the DNS adapter is configured with.
Domain == <<"t">>

Digits == <<"0","1","2","3","4","5","6","7","8","9">>
\* fmt.Sprintf("%d", n), n >= 0
RECURSIVE Itoa(_)
Itoa(n) == IF n < 10 THEN <<Digits[n + 1]>>
           ELSE Itoa(n \div 10) \o <<Digits[(n % 10) + 1]>>
\* parseUint64: fmt.Sscanf(s, "%d"): the leading decimal digits, 0 if none.
DigitOf(c) == IF \E d \in 1..10 : Digits[d] = c
              THEN (CHOOSE d \in 1..10 : Digits[d] = c) - 1 ELSE 10
RECURSIVE ScanUint(_, _)
ScanUint(s, acc) ==
  IF s = <<>> \/ DigitOf(s[1]) = 10 THEN acc
  ELSE ScanUint(Tail(s), acc * 10 + DigitOf(s[1]))
parseUint64(s) == ScanUint(s, 0)

\* Go maps, as functions
EmptyMap == [x \in {} |-> 0]
Put(m, k, v) == [x \in DOMAIN m \cup {k} |-> IF x = k THEN v ELSE m[x]]
Del(m, k) == [x \in DOMAIN m \ {k} |-> m[x]]

(***************************************************************************)
(* DNSPodService.GenerateSubdomain (services, DNS adapter).                *)
(***************************************************************************)
charset == <<"a","b","c","d","e","f","g","h","i","j","k","l","m",
             "n","o","p","q","r","s","t","u","v","w","x","y","z",
             "0","1","2","3","4","5","6","7","8","9">>
length == 8
MaxAttempts == 100

\* What the random source gives one attempt: <<k>>, every rand.Int of the
\* attempt returns k, or <<>>, rand.Int fails.
Draws == {<<k>> : k \in 0..MaxDraw} \cup {<<>>}
\* A random source: the draws of the attempts, repeated cyclically.
Sources == UNION {[1..n -> Draws] : n \in 1..MaxCycle}

\* The string of one attempt
Sample(k) == [i \in 1..length |-> charset[k + 1]]

\* The draw of the attempt number i (from 0) of a call with the source src
Draw(src, i) == src[(i % Len(src)) + 1]

\* A loop test that does not look at the registry.
EndsLoopUnchecked(reg, src, i) == TRUE
\* The attempt i leaves the loop: rand.Int fails, or the sample is not a key
\* of subdomainMap (reg is its key set).
EndsLoop(reg, src, i) ==
  Draw(src, i) = <<>> \/ Sample(Draw(src, i)[1]) \notin reg

\* What the attempt that leaves the loop returns
AttemptResult(draw) ==
  IF draw = <<>> THEN [sub |-> <<>>, err |-> "rand"]
  ELSE [sub |-> Sample(draw[1]), err |-> ""]

\* The loop "for attempts := 0; attempts < 100; attempts++": the first
\* attempt that leaves it decides; if none does, the error after the loop.
GenerateSubdomain(reg, src) ==
  IF \E i \in 0..MaxAttempts - 1 : EndsLoop(reg, src, i)
  THEN AttemptResult(Draw(src, CHOOSE i \in 0..MaxAttempts - 1 :
                                 /\ EndsLoop(reg, src, i)
                                 /\ \A j \in 0..i - 1 : ~EndsLoop(reg, src, j)))
  ELSE [sub |-> <<>>, err |-> "exhausted"]

(***************************************************************************)
(* The table mail_domains (storage).                                       *)
(***************************************************************************)
\* INSERT INTO mail_domains: full_domain and email are UNIQUE.
InsertAllowed(tbl, fullDomain, email) ==
  \A r \in tbl : r.fullDomain # fullDomain /\ r.email # email
\* SQLiteStorage.CreateMailDomain, when the INSERT succeeds
InsertRow(tbl, id, userID, subdomain, fullDomain, recordID, email) ==
  tbl \cup {[id |-> id, userID |-> userID, subdomain |-> subdomain,
             fullDomain |-> fullDomain, recordID |-> recordID, email |-> email]}
\* A DELETE by the id alone.
DeleteRowOfAnyOwner(tbl, userID, id) == {r \in tbl : r.id # id}
\* SQLiteStorage.DeleteMailDomain: DELETE ... WHERE id = ? AND user_id = ?
DeleteRow(tbl, userID, id) == {r \in tbl : ~(r.id = id /\ r.userID = userID)}

(***************************************************************************)
(* A call in progress: its arguments, its locals and what it has done.     *)
(***************************************************************************)
ProcIdle ==
  [pc |-> "idle", by |-> "", op |-> "none", n |-> 0,
   userID |-> 0, email |-> <<>>, id |-> 0, port |-> 0,
   subdomain |-> <<>>, fullDomain |-> <<>>, recordID |-> <<>>,
   dnsCreates |-> 0, dnsDeletes |-> 0, dnsOk |-> FALSE, wrote |-> FALSE,
   registered |-> FALSE,
   result |-> <<>>, err |-> ""]

\* The call number n of caller p begins.
Started(p, op, email, id, port) ==
  [ProcIdle EXCEPT !.by = p, !.op = op, !.n = calls[p] + 1,
                   !.userID = UserOf(p), !.email = email, !.id = id,
                   !.port = port]

\* The call of p returns res, err ("" is nil); pr is its final record.
Return(p, pr, res, err) ==
  /\ done' = [done EXCEPT ![p] =
                Append(@, [pr EXCEPT !.pc = "done", !.result = res, !.err = err])]
  /\ proc' = [proc EXCEPT ![p] = ProcIdle]
  /\ calls' = [calls EXCEPT ![p] = @ + 1]

\* The call of p goes on with the record pr.
Continue(p, pr) ==
  /\ proc' = [proc EXCEPT ![p] = pr]
  /\ UNCHANGED <<done, calls>>

\* The calls begun so far: those returned and those in progress.
RECURSIVE SumOver(_, _)
SumOver(f, S) == IF S = {} THEN 0
                 ELSE LET x == CHOOSE x \in S : TRUE IN f[x] + SumOver(f, S \ {x})
InFlight == Cardinality({q \in Procs : proc[q].pc # "idle"})
CanCall(p) == proc[p].pc = "idle" /\ SumOver(calls, Procs) + InFlight < MaxCalls

\* History of a GenerateSubdomain call: the registry keys it ran against,
\* what it returned, whether its first sample was a registry key (rejected)
\* and whether all its samples were registry keys (exhausted).
NoGen == [reg |-> {}, sub |-> <<>>, err |-> "none", rejected |-> FALSE,
          exhausted |-> FALSE]
IsKey(reg, draw) == draw # <<>> /\ Sample(draw[1]) \in reg
GenHistory(reg, src, g) ==
  [reg |-> reg, sub |-> g.sub, err |-> g.err,
   rejected |-> IsKey(reg, Draw(src, 0)),
   exhausted |-> \A i \in 0..MaxAttempts - 1 : IsKey(reg, Draw(src, i))]

\* The provider's answer to a CreateRecord request is logged; an accepted
\* request adds a record.
ProviderCreate(p, n, sub, type, ok) ==
  /\ dnsLog' = dnsLog \cup {[op |-> "create", type |-> type, sub |-> sub,
                              id |-> IF ok THEN provNextId ELSE 0,
                              by |-> p, n |-> n, ok |-> ok]}
  /\ IF ok
     THEN /\ provRecords' = provRecords \cup
                              {[id |-> provNextId, sub |-> sub, type |-> type]}
          /\ provNextId' = provNextId + 1
     ELSE UNCHANGED <<provRecords, provNextId>>

\* The provider's answer to a DeleteRecord request for the record id.
ProviderDelete(p, n, sub, id, ok) ==
  /\ dnsLog' = dnsLog \cup {[op |-> "delete", type |-> "", sub |-> sub,
                              id |-> id, by |-> p, n |-> n, ok |-> ok]}
  /\ provRecords' = IF ok THEN {r \in provRecords : r.id # id} ELSE provRecords
  /\ UNCHANGED provNextId

(***************************************************************************)
(* MailDNSService (services, mailbox provisioning).                        *)
(***************************************************************************)
MailExampleCom == <<".","m","a","i","l",".","e","x","a","m","p","l","e",
                    ".","c","o","m">>

\* The subdomain used when dnsService is nil
VirtualSubdomain(userID, email) ==
  IF Len(Split(email, "@")) = 2 THEN Split(email, "@")[1]
  ELSE <<"u","s","e","r">> \o Itoa(userID)

\* CreateMailDomain up to the choice of the branch: the lookup by email.
CreateLookup(p, pr, lookupOk) ==
  /\ IF ~lookupOk THEN Return(p, pr, <<>>, "lookup")
     ELSE IF GetMailDomainByEmail(rows, pr.email) # <<>>
     THEN Return(p, pr, GetMailDomainByEmail(rows, pr.email), "")
     ELSE IF dnsNil
     THEN Continue(p, [pr EXCEPT
            !.pc = "persist",
            !.subdomain = VirtualSubdomain(pr.userID, pr.email),
            !.fullDomain = VirtualSubdomain(pr.userID, pr.email) \o MailExampleCom])
     ELSE Continue(p, [pr EXCEPT !.pc = "generate"])
  /\ UNCHANGED <<rows, nextId, dnsNil, subdomainMap, portMap, recordMap,
                 provRecords, provNextId, dnsLog, lastGen>>

CreateMailDomainCall(p) ==
  /\ CanCall(p)
  /\ \E email \in Emails, lookupOk \in BOOLEAN :
       CreateLookup(p, Started(p, "create", email, 0, 0), lookupOk)
  /\ UNCHANGED <<smtpVars, extVars>>

\* A GenerateSubdomain call by p, under d.mu, with the random source src;
\* g is what it returns and pr the caller's record.
Generated(p, pr, src, g, nextpc) ==
  /\ lastGen' = GenHistory(DOMAIN subdomainMap, src, g)
  /\ IF g.err # "" THEN Return(p, pr, <<>>, "generate")
     ELSE Continue(p, [pr EXCEPT !.pc = nextpc, !.subdomain = g.sub])
  /\ UNCHANGED <<rows, nextId, dnsNil, subdomainMap, portMap, recordMap,
                 provRecords, provNextId, dnsLog>>

CreateGenerate(p) ==
  /\ proc[p].pc = "generate"
  /\ \E src \in Sources :
       Generated(p, proc[p], src, GenerateSubdomain(DOMAIN subdomainMap, src),
                 "records")
  /\ UNCHANGED <<smtpVars, extVars>>

\* A variant of createMailRecords' caller that goes on after a failure.
RecordsStepIgnoringError(p, ok) ==
  /\ ProviderCreate(p, proc[p].n, proc[p].subdomain, "MX", ok)
  /\ Continue(p, [proc[p] EXCEPT !.pc = "persist", !.dnsCreates = 1,
                                 !.dnsOk = ok,
                                 !.fullDomain = proc[p].subdomain \o <<".">> \o Domain])
\* A CreateMailDomain that goes on to the row without a CreateRecord request.
RecordsStepWithoutRequest(p, ok) ==
  /\ UNCHANGED <<dnsLog, provRecords, provNextId>>
  /\ Continue(p, [proc[p] EXCEPT !.pc = "persist",
                                 !.fullDomain = proc[p].subdomain \o <<".">> \o Domain])
\* createMailRecords / createMXRecord: one CreateRecord request of type MX;
\* on an error CreateMailDomain returns it.
RecordsStep(p, ok) ==
  /\ ProviderCreate(p, proc[p].n, proc[p].subdomain, "MX", ok)
  /\ IF ok
     THEN Continue(p, [proc[p] EXCEPT !.pc = "persist", !.dnsCreates = 1,
                                      !.dnsOk = TRUE,
                                      !.fullDomain = proc[p].subdomain \o <<".">> \o Domain])
     ELSE Return(p, [proc[p] EXCEPT !.dnsCreates = 1], <<>>, "dns")

CreateRecords(p) ==
  /\ proc[p].pc = "records"
  /\ \E ok \in BOOLEAN : RecordsStep(p, ok)
  /\ UNCHANGED <<rows, nextId, dnsNil, subdomainMap, portMap, recordMap, lastGen>>
  /\ UNCHANGED <<smtpVars, extVars>>

\* deleteMailRecords: writes to the program log and returns nil; the
\* provider is not called.
deleteMailRecords(log, subdomain) == log

\* The struct CreateMailDomain returns for a new mailbox
NewMailDomain(pr) ==
  [id |-> 0, userID |-> 0, subdomain |-> pr.subdomain,
   fullDomain |-> pr.fullDomain, recordID |-> pr.subdomain, email |-> pr.email]

\* storage.CreateMailDomain and what follows it
PersistStep(p, pr, storeOk) ==
  IF storeOk /\ InsertAllowed(rows, pr.fullDomain, pr.email)
  THEN /\ rows' = InsertRow(rows, nextId, pr.userID, pr.subdomain,
                            pr.fullDomain, pr.subdomain, pr.email)
       /\ nextId' = nextId + 1
       /\ dnsLog' = dnsLog
       /\ Return(p, [pr EXCEPT !.wrote = TRUE], <<NewMailDomain(pr)>>, "")
  ELSE /\ UNCHANGED <<rows, nextId>>
       /\ dnsLog' = IF ~dnsNil THEN deleteMailRecords(dnsLog, pr.subdomain)
                    ELSE dnsLog
       /\ Return(p, pr, <<>>, "persist")

CreatePersist(p) ==
  /\ proc[p].pc = "persist"
  /\ \E storeOk \in BOOLEAN : PersistStep(p, proc[p], storeOk)
  /\ UNCHANGED <<dnsNil, subdomainMap, portMap, recordMap, provRecords,
                 provNextId, lastGen>>
  /\ UNCHANGED <<smtpVars, extVars>>

\* DeleteMailDomain: the row is deleted; the DNS record is left (TODO).
DeleteStep(p, pr, storeOk) ==
  IF storeOk
  THEN /\ rows' = DeleteRow(rows, pr.userID, pr.id)
       /\ Return(p, [pr EXCEPT !.wrote = (DeleteRow(rows, pr.userID, pr.id) # rows)],
                 <<>>, "")
  ELSE /\ UNCHANGED rows
       /\ Return(p, pr, <<>>, "delete")

DeleteMailDomainCall(p) ==
  /\ CanCall(p)
  /\ \E id \in {r.id : r \in rows}, storeOk \in BOOLEAN :
       DeleteStep(p, Started(p, "delete", <<>>, id, 0), storeOk)
  /\ UNCHANGED <<nextId, dnsNil, subdomainMap, portMap, recordMap, provRecords,
                 provNextId, dnsLog, lastGen>>
  /\ UNCHANGED <<smtpVars, extVars>>

(***************************************************************************)
(* DNSPodService.CreateDNSRecord and DeleteDNSRecord (services, DNS        *)
(* adapter). The adapter exists when the DNS configuration is complete.    *)
(***************************************************************************)
\* CreateDNSRecord up to the request: GenerateSubdomain
DNSCreateCall(p) ==
  /\ CanCall(p) /\ ~dnsNil
  /\ \E port \in Ports, src \in Sources :
       Generated(p, Started(p, "createDNS", <<>>, 0, port), src,
                 GenerateSubdomain(DOMAIN subdomainMap, src), "dnsapi")
  /\ UNCHANGED <<smtpVars, extVars>>

\* d.client.CreateRecord, type A
DNSCreateApi(p) ==
  /\ proc[p].pc = "dnsapi"
  /\ \E ok \in BOOLEAN :
       /\ ProviderCreate(p, proc[p].n, proc[p].subdomain, "A", ok)
       /\ IF ok
          THEN Continue(p, [proc[p] EXCEPT !.pc = "dnsmaps", !.dnsCreates = 1,
                                           !.dnsOk = TRUE,
                                           !.recordID = Itoa(provNextId),
                                           !.fullDomain = proc[p].subdomain
                                                            \o <<".">> \o Domain])
          ELSE Return(p, [proc[p] EXCEPT !.dnsCreates = 1], <<>>, "api")
  /\ UNCHANGED <<rows, nextId, dnsNil, subdomainMap, portMap, recordMap, lastGen>>
  /\ UNCHANGED <<smtpVars, extVars>>

\* The DNSRecord CreateDNSRecord returns
NewDNSRecord(pr) ==
  [subdomain |-> pr.subdomain, recordID |-> pr.recordID, port |-> pr.port,
   fullDomain |-> pr.fullDomain]

\* The update of the three maps, under d.mu, and the return
DNSCreateMaps(p) ==
  /\ proc[p].pc = "dnsmaps"
  /\ subdomainMap' = Put(subdomainMap, proc[p].subdomain, proc[p].port)
  /\ portMap' = Put(portMap, proc[p].port, proc[p].subdomain)
  /\ recordMap' = Put(recordMap, proc[p].subdomain, proc[p].recordID)
  /\ Return(p, [proc[p] EXCEPT !.registered = TRUE], <<NewDNSRecord(proc[p])>>, "")
  /\ UNCHANGED <<rows, nextId, dnsNil, provRecords, provNextId, dnsLog, lastGen>>
  /\ UNCHANGED <<smtpVars, extVars>>

\* DeleteDNSRecord up to the request: the two lookups, under d.mu
DeleteLookup(p, pr) ==
  IF pr.port \notin DOMAIN portMap THEN Return(p, pr, <<>>, "noport")
  ELSE IF portMap[pr.port] \notin DOMAIN recordMap
  THEN Return(p, pr, <<>>, "norecord")
  ELSE Continue(p, [pr EXCEPT !.pc = "delapi",
                              !.subdomain = portMap[pr.port],
                              !.recordID = recordMap[portMap[pr.port]]])

DNSDeleteCall(p) ==
  /\ CanCall(p) /\ ~dnsNil
  /\ \E port \in Ports : DeleteLookup(p, Started(p, "deleteDNS", <<>>, 0, port))
  /\ UNCHANGED <<rows, nextId, dnsNil, subdomainMap, portMap, recordMap,
                 provRecords, provNextId, dnsLog, lastGen>>
  /\ UNCHANGED <<smtpVars, extVars>>

\* d.client.DeleteRecord
DNSDeleteApi(p) ==
  /\ proc[p].pc = "delapi"
  /\ \E ok \in BOOLEAN :
       /\ ProviderDelete(p, proc[p].n, proc[p].subdomain,
                         parseUint64(proc[p].recordID), ok)
       /\ IF ok THEN Continue(p, [proc[p] EXCEPT !.pc = "delmaps",
                                                 !.dnsDeletes = 1])
          ELSE Return(p, [proc[p] EXCEPT !.dnsDeletes = 1], <<>>, "api")
  /\ UNCHANGED <<rows, nextId, dnsNil, subdomainMap, portMap, recordMap, lastGen>>
  /\ UNCHANGED <<smtpVars, extVars>>

\* The removal from the three maps, under d.mu, and the return
DNSDeleteMaps(p) ==
  /\ proc[p].pc = "delmaps"
  /\ subdomainMap' = Del(subdomainMap, proc[p].subdomain)
  /\ portMap' = Del(portMap, proc[p].port)
  /\ recordMap' = Del(recordMap, proc[p].subdomain)
  /\ Return(p, proc[p], <<>>, "")
  /\ UNCHANGED <<rows, nextId, dnsNil, provRecords, provNextId, dnsLog, lastGen>>
  /\ UNCHANGED <<smtpVars, extVars>>

(***************************************************************************)
(* The management API (api/server.go): createDomain and deleteDomain, as   *)
(* the authentication middleware hands them the caller's user id and       *)
(* address. Requests are served concurrently; the statements of a handler  *)
(* on the store are separate steps.                                        *)
(***************************************************************************)
\* createDomain: user.DomainCount >= 20
DomainLimit == 20

ApiIdle == [pc |-> "idle", base |-> 0, status |-> 0]
\* The handler writes its response and returns.
Respond(p, status) ==
  api' = [api EXCEPT ![p] = [pc |-> "idle", base |-> 0, status |-> status]]
\* The handler goes on to the call of the service.
Proceed(p, op) ==
  api' = [api EXCEPT ![p] = [pc |-> op, base |-> calls[p], status |-> 0]]

\* The last call of p that has returned
LastDone(p) == done[p][Len(done[p])]

\* createDomain up to the call of CreateMailDomain: the request body is
\* decoded (valid: it decodes and names an address) and, for a caller other
\* than the administrator, the user is read and its domain_count compared.
ApiCreateDomain(p) ==
  /\ api[p].pc = "idle" /\ CanCall(p)
  /\ \E valid \in BOOLEAN, lookupOk \in BOOLEAN :
       IF ~valid THEN Respond(p, 400)
       ELSE IF UserEmailOf(p) # AdminEmail /\ ~lookupOk THEN Respond(p, 500)
       ELSE IF UserEmailOf(p) # AdminEmail
                 /\ domainCount[UserOf(p)] >= DomainLimit
       THEN Respond(p, 403)
       ELSE Proceed(p, "create")
  /\ UNCHANGED <<domainCount, smtpVars, provVars, relayVars>>

\* createDomain: s.dnsService.CreateMailDomain(userID, req.Email)
ApiCreateService(p) ==
  /\ api[p].pc = "create" /\ calls[p] = api[p].base
  /\ CreateMailDomainCall(p)

\* createDomain after CreateMailDomain has returned: the error response, or
\* IncrementDomainCount (its UPDATE succeeds) and the domain.
ApiCreateReturn(p) ==
  /\ api[p].pc = "create" /\ proc[p].pc = "idle" /\ calls[p] = api[p].base + 1
  /\ IF LastDone(p).err # ""
     THEN Respond(p, 500) /\ UNCHANGED domainCount
     ELSE /\ Respond(p, 200)
          /\ domainCount' = [domainCount EXCEPT ![UserOf(p)] = @ + 1]
  /\ UNCHANGED <<smtpVars, provVars, relayVars>>

\* deleteDomain up to the call of DeleteMailDomain: the id is parsed.
ApiDeleteDomain(p) ==
  /\ api[p].pc = "idle" /\ CanCall(p)
  /\ \E valid \in BOOLEAN :
       IF ~valid THEN Respond(p, 400) ELSE Proceed(p, "delete")
  /\ UNCHANGED <<domainCount, smtpVars, provVars, relayVars>>

\* deleteDomain: s.dnsService.DeleteMailDomain(userID, id)
ApiDeleteService(p) ==
  /\ api[p].pc = "delete" /\ calls[p] = api[p].base
  /\ DeleteMailDomainCall(p)

\* DecrementDomainCount: ... SET domain_count = domain_count - 1
\* WHERE id = ? AND domain_count > 0
DecrementDomainCount(count, userID) ==
  [count EXCEPT ![userID] = IF @ > 0 THEN @ - 1 ELSE @]

\* deleteDomain after DeleteMailDomain has returned
ApiDeleteReturn(p) ==
  /\ api[p].pc = "delete" /\ proc[p].pc = "idle" /\ calls[p] = api[p].base + 1
  /\ IF LastDone(p).err # ""
     THEN Respond(p, 500) /\ UNCHANGED domainCount
     ELSE /\ Respond(p, 200)
          /\ domainCount' = DecrementDomainCount(domainCount, UserOf(p))
  /\ UNCHANGED <<smtpVars, provVars, relayVars>>

(***************************************************************************)
(* The outbound relay (smtp, MailForwarder): Forward, sendDirect,          *)
(* sendToServerDirect.                                                     *)
(***************************************************************************)
ToLowerChar(c) ==
  IF \E i \in 1..Len(UpperLetters) : UpperLetters[i] = c
  THEN LowerLetters[CHOOSE i \in 1..Len(UpperLetters) : UpperLetters[i] = c]
  ELSE c
\* strings.ToLower
ToLower(s) == [i \in 1..Len(s) |-> ToLowerChar(s[i])]
\* strings.Contains
Contains(s, sub) ==
  \E i \in 0..Len(s) - Len(sub) : SubSeq(s, i + 1, i + Len(sub)) = sub

\* f.localDomain
LocalDomain == <<"M","x">>

\* The recipients: at the local domain in two spellings, at a domain no
\* provider name occurs in, at a provider's domain, with two "@", with none.
RcptLocal == <<"u","@","m","x">>
RcptLocalUpper == <<"u","@","M","X">>
RcptPlain == <<"u","@","d">>
RcptGmail == <<"u","@","G","m","a","i","l",".","c","o","m">>
RcptTwoAt == <<"u","@","x","@","m","x">>
RcptNoAt == <<"u">>
Recipients == {RcptLocal, RcptLocalUpper, RcptPlain, RcptGmail, RcptTwoAt,
               RcptNoAt}
\* Recipients at a domain that contains the keys of two rows of
\* providerPorts, at a provider's domain and at a domain that contains none.
RcptBoth == <<"u","@","d","e","f","a","u","l","t",".",
              "g","m","a","i","l",".","c","o","m">>
PortRecipients == {RcptBoth, RcptGmail, RcptPlain}

\* A comparison of the domain with the local domain as it is spelled.
isLocalDomainCaseSensitive(email) ==
  Len(Split(email, "@")) = 2 /\ Split(email, "@")[2] = LocalDomain
\* isLocalDomain
isLocalDomain(email) ==
  /\ Len(Split(email, "@")) = 2
  /\ ToLower(Split(email, "@")[2]) = ToLower(LocalDomain)
\* extractDomain
extractDomain(email) ==
  IF Len(Split(email, "@")) # 2 THEN <<>> ELSE ToLower(Split(email, "@")[2])

\* providerPorts: the rows whose key occurs in a domain of the model, and
\* the row "default".
GmailCom == <<"g","m","a","i","l",".","c","o","m">>
DefaultKey == <<"d","e","f","a","u","l","t">>
providerPorts ==
  [k \in {GmailCom, DefaultKey} |->
     IF k = GmailCom THEN <<587, 465>> ELSE <<25, 587, 465, 2525>>]
SmtpPorts == {25, 587, 465, 2525}

\* getPortsForDomain: the lists a call can return, the ports of a row whose
\* key the domain contains, else the default ports. The loop ranges over
\* the map in an order that differs from call to call, so with two such
\* rows the call returns either list.
getPortsForDomain(domain) ==
  IF \E k \in DOMAIN providerPorts : Contains(ToLower(domain), k)
  THEN {providerPorts[k] : k \in {x \in DOMAIN providerPorts :
                                    Contains(ToLower(domain), x)}}
  ELSE {providerPorts[DefaultKey]}

\* The hosts of the network: the two domains and two mail-exchange hosts.
DomPlain == <<"d">>
HostA == <<"h","1">>
HostB == <<"h","2">>
Hosts == {DomPlain, GmailCom, HostA, HostB}
\* How far a connection to a host and port gets: "closed", the dial fails;
\* "mute", smtp.NewClient or Hello fails; "reject", a later command of the
\* exchange fails; "smtp", the exchange succeeds.
Only(port, status) ==
  [q \in SmtpPorts |-> IF q = port THEN status ELSE "closed"]
Both(p1, s1, p2, s2) ==
  [q \in SmtpPorts |-> IF q = p1 THEN s1 ELSE IF q = p2 THEN s2 ELSE "closed"]
Profiles == { Only(25, "closed"), Only(25, "mute"), Only(25, "reject"),
              Only(25, "smtp"), Only(465, "smtp"),
              Both(25, "reject", 587, "smtp"),
              Both(465, "smtp", 2525, "reject") }
Worlds == [Hosts -> Profiles]
\* Hosts whose ports advertise STARTTLS, a host that accepts connections on
\* port 465 only, and a host that takes the message and rejects it at the
\* end of the data ("bounce")
TlsProfiles == { Only(587, "starttls"), Only(587, "tlsfail"),
                 Only(587, "tlsbreak"), Only(587, "smtp"),
                 Only(25, "starttls"),
                 Both(25, "reject", 587, "tlsfail"),
                 Both(465, "starttls", 2525, "tlsbreak"),
                 Only(465, "smtp"), Only(25, "bounce") }
TlsWorlds == [Hosts -> TlsProfiles]
\* The hosts of the recipients of PortRecipients, each accepting mail on
\* port 25 or refusing every connection
DomBoth == <<"d","e","f","a","u","l","t",".","g","m","a","i","l",".","c","o","m">>
PortWorlds ==
  [Hosts \cup {DomBoth} -> {Only(25, "closed"), Only(25, "smtp")}]

\* What net.LookupMX returns: an error, or records of a host, written with
\* the final dot, and a preference, sorted by preference (as the library
\* documents).
Dotted(h) == h \o <<".">>
Prefs == {10, 20}
MxRecords ==
  UNION { [1..n -> [host : {Dotted(HostA), Dotted(HostB)}, pref : Prefs]] :
            n \in 0..MaxMx }
\* A resolver that returns the records in any order.
MxAnswersUnsorted ==
  { [err |-> TRUE, recs |-> <<>>] } \cup
  { [err |-> FALSE, recs |-> rs] : rs \in MxRecords }
MxAnswers ==
  { [err |-> TRUE, recs |-> <<>>] } \cup
  { [err |-> FALSE, recs |-> rs] :
      rs \in {r \in MxRecords :
                \A i \in 1..Len(r) - 1 : r[i].pref <= r[i + 1].pref} }

\* A findAvailablePorts that returns the ports it was given.
findAvailablePortsUnprobed(net, host, ports) == ports
\* A findAvailablePorts that returns no port when none accepts a connection.
findAvailablePortsNoFallback(net, host, ports) ==
  SelectSeq(ports, LAMBDA q : net[host][q] # "closed")
\* findAvailablePorts: the ports that accept a connection, or port 25.
findAvailablePorts(net, host, ports) ==
  IF SelectSeq(ports, LAMBDA q : net[host][q] # "closed") = <<>>
  THEN <<25>>
  ELSE SelectSeq(ports, LAMBDA q : net[host][q] # "closed")

\* One iteration of sendToServerDirect's loop, for a port whose connection
\* gets as far as status: "ok", the message was sent; "skip", the iteration
\* ends without an error (port 465 after Hello); else the error.
\* An iteration that ends with an error when the upgrade to TLS fails.
AttemptAbortingOnTls(status, port) ==
  IF status = "closed" THEN "connect"
  ELSE IF status = "mute" THEN "client"
  ELSE IF port = 587 /\ status \in {"tlsfail", "tlsbreak"} THEN "starttls"
  ELSE IF port = 465 THEN "skip"
  ELSE IF status = "reject" THEN "exchange"
  ELSE "ok"
\* A server of status "starttls", "tlsfail" or "tlsbreak" advertises
\* STARTTLS; the upgrade fails with the last two, and after the failure
\* "tlsfail" carries the exchange and "tlsbreak" fails it at MAIL. A server
\* of status "bounce" answers the end of the data with an error, which
\* wc.Close returns and the iteration does not look at.
Attempt(status, port) ==
  IF status = "closed" THEN "connect"
  ELSE IF status = "mute" THEN "client"
  ELSE IF port = 465 THEN "skip"
  ELSE IF status = "reject" THEN "exchange"
  ELSE IF port = 587 /\ status = "tlsbreak" THEN "exchange"
  ELSE "ok"

\* The TLS branch of the iteration: "none", no upgrade was attempted; "ok",
\* client.StartTLS returned nil; "failed", it returned an error.
Upgrade(status, port) ==
  IF status \in {"closed", "mute"} \/ port # 587 THEN "none"
  ELSE IF status = "starttls" THEN "ok"
  ELSE IF status \in {"tlsfail", "tlsbreak"} THEN "failed"
  ELSE "none"

\* The server has acknowledged the end of the data: wc.Close returned nil.
Acknowledged(status, port) ==
  Attempt(status, port) = "ok" /\ status # "bounce"

\* The commands the iteration's client sent on its connection, in order.
Commands(status, port) ==
  IF Attempt(status, port) \in {"connect", "client"} THEN << >>
  ELSE <<"HELO">>
       \o (IF Upgrade(status, port) # "none" THEN <<"STARTTLS">> ELSE << >>)
       \o (IF Attempt(status, port) = "ok"
           THEN <<"MAIL", "RCPT", "DATA", "QUIT">>
           ELSE IF Attempt(status, port) = "exchange" THEN <<"MAIL">>
           ELSE << >>)

RelayIdle ==
  [pc |-> "idle", to |-> <<>>, domain |-> <<>>, lookups |-> 0,
   answer |-> "none", mx |-> <<>>, cands |-> <<>>, idx |-> 0, ports |-> <<>>, j |-> 0,
   lastErr |-> "", err |-> "", sent |-> FALSE]

\* Forward has returned err ("" is nil).
RelayDone(r, err) == [r EXCEPT !.pc = "done", !.err = err]

\* sendDirect after net.LookupMX has returned mx
AfterLookup(r, mx) ==
  IF mx.err
  THEN [r EXCEPT !.pc = "probe", !.lookups = 1, !.answer = "err",
                 !.cands = <<r.domain>>, !.idx = 1]
  ELSE IF mx.recs = <<>>
  THEN RelayDone([r EXCEPT !.lookups = 1, !.answer = "empty"], "nomx")
  ELSE [r EXCEPT !.pc = "probe", !.lookups = 1, !.answer = "hosts",
                 !.mx = mx.recs,
                 !.cands = [i \in 1..Len(mx.recs) |->
                              TrimSuffix(mx.recs[i].host, <<".">>)],
                 !.idx = 1]

\* Forward and sendDirect up to the first host, for the recipient to and the
\* answer mx of the resolver.
Forwarded(r, to, mx) ==
  IF isLocalDomain(to) THEN RelayDone([r EXCEPT !.to = to], "local")
  ELSE IF extractDomain(to) = <<>>
  THEN RelayDone([r EXCEPT !.to = to], "invalid")
  ELSE AfterLookup([r EXCEPT !.to = to, !.domain = extractDomain(to)], mx)
ForwardCall ==
  /\ relay.pc = "idle"
  /\ \E to \in Recipients, mx \in MxAnswers :
       relay' = Forwarded(relay, to, mx)
  /\ UNCHANGED <<reach, dials, smtpVars, provVars, apiVars>>
ForwardAmong ==
  /\ relay.pc = "idle"
  /\ \E to \in PortRecipients, mx \in MxAnswers :
       relay' = Forwarded(relay, to, mx)
  /\ UNCHANGED <<reach, dials, smtpVars, provVars, apiVars>>

\* sendToServerDirect up to its loop: findAvailablePorts dials every
\* recommended port of the host once.
Probes(net, idx, host, ports) ==
  [i \in 1..Len(ports) |->
     [cand |-> idx, host |-> host, port |-> ports[i], kind |-> "probe",
      res |-> IF net[host][ports[i]] = "closed" THEN "refused" ELSE "accepted",
      tls |-> "none", cmds |-> << >>, acked |-> FALSE]]
\* sendToServerDirect has returned err to sendDirect: in the loop over the
\* records, nil ends it and an error moves to the next host.
AfterHost(r, err) ==
  IF r.answer = "err" \/ err = "" THEN RelayDone(r, err)
  ELSE IF r.idx < Len(r.cands) THEN [r EXCEPT !.pc = "probe", !.idx = @ + 1]
  ELSE RelayDone(r, "allmx")

\* The loop over ports starts; over no port it ends at once, with lastErr
\* still nil.
LoopOver(r, ports) ==
  IF ports = <<>> THEN AfterHost([r EXCEPT !.ports = ports, !.lastErr = ""], "")
  ELSE [r EXCEPT !.pc = "deliver", !.j = 1, !.lastErr = "", !.ports = ports]
RelayProbe ==
  /\ relay.pc = "probe"
  /\ \E ports \in getPortsForDomain(relay.domain) :
       /\ dials' = dials \o Probes(reach, relay.idx, relay.cands[relay.idx],
                                   ports)
       /\ relay' = LoopOver(relay,
                      findAvailablePorts(reach, relay.cands[relay.idx],
                                         ports))
  /\ UNCHANGED <<reach, smtpVars, provVars, apiVars>>

\* A loop that goes on to the next port, and the next host, after the
\* message was sent.
DeliveredGoesOn(r, res) ==
  IF r.j < Len(r.ports)
  THEN [r EXCEPT !.j = @ + 1, !.sent = @ \/ res = "ok",
                 !.lastErr = IF res = "skip" THEN @ ELSE res]
  ELSE AfterHost([r EXCEPT !.sent = @ \/ res = "ok",
                           !.lastErr = IF res = "skip" THEN @ ELSE res],
                 IF res = "skip" THEN r.lastErr ELSE res)
\* One iteration of sendToServerDirect's loop with the outcome res, and
\* what follows when it was the last one.
Delivered(r, res) ==
  IF res = "ok" THEN AfterHost([r EXCEPT !.sent = TRUE], "")
  ELSE IF r.j < Len(r.ports)
  THEN [r EXCEPT !.j = @ + 1, !.lastErr = IF res = "skip" THEN @ ELSE res]
  ELSE AfterHost([r EXCEPT !.lastErr = IF res = "skip" THEN @ ELSE res],
                 IF res = "skip" THEN r.lastErr ELSE res)
RelayDeliver ==
  /\ relay.pc = "deliver"
  /\ dials' = Append(dials, [cand |-> relay.idx,
                             host |-> relay.cands[relay.idx],
                             port |-> relay.ports[relay.j], kind |-> "deliver",
                             res |-> Attempt(
                               reach[relay.cands[relay.idx]][relay.ports[relay.j]],
                               relay.ports[relay.j]),
                             tls |-> Upgrade(
                               reach[relay.cands[relay.idx]][relay.ports[relay.j]],
                               relay.ports[relay.j]),
                             cmds |-> Commands(
                               reach[relay.cands[relay.idx]][relay.ports[relay.j]],
                               relay.ports[relay.j]),
                             acked |-> Acknowledged(
                               reach[relay.cands[relay.idx]][relay.ports[relay.j]],
                               relay.ports[relay.j])])
  /\ relay' = Delivered(relay,
                Attempt(reach[relay.cands[relay.idx]][relay.ports[relay.j]],
                        relay.ports[relay.j]))
  /\ UNCHANGED <<reach, smtpVars, provVars, apiVars>>

(***************************************************************************)
(* Specification of the DNS adapter: two callers of CreateDNSRecord and    *)
(* DeleteDNSRecord, and the provider. No SMTP session is open.             *)
(***************************************************************************)
NoSession ==
  /\ script = <<>> /\ wire = <<>> /\ pc = "closed"
  /\ mailFrom = <<>> /\ rcptTo = <<>> /\ dataBuffer = <<>>
  /\ out = <<>> /\ saveLog = <<>>
  /\ misaligned = 0 /\ senderSet = FALSE
  /\ peer = NoPeer
  /\ last = [kind |-> "init", line |-> <<>>, from |-> <<>>, rcpt |-> <<>>,
             sender |-> FALSE, nout |-> 0]

NoCalls ==
  /\ proc = [p \in Procs |-> ProcIdle]
  /\ calls = [p \in Procs |-> 0]
  /\ done = [p \in Procs |-> <<>>]

\* No API request is in progress and no user has a counted mailbox.
NoApi ==
  /\ api = [p \in Procs |-> ApiIdle]
  /\ domainCount = [u \in Users |-> 0]

\* No Forward call is made; no host accepts a connection.
NoRelay ==
  /\ relay = RelayIdle
  /\ reach = [h \in Hosts |-> Only(25, "closed")]
  /\ dials = <<>>

NoRecords ==
  /\ subdomainMap = EmptyMap /\ portMap = EmptyMap /\ recordMap = EmptyMap
  /\ provRecords = {}
  /\ provNextId = 1
  /\ dnsLog = {}
  /\ lastGen = NoGen

DnsInit ==
  /\ rows = {} /\ nextId = 1
  /\ dnsNil = FALSE
  /\ NoRecords
  /\ NoCalls
  /\ NoSession
  /\ NoApi
  /\ NoRelay

DnsNext ==
  \E p \in Procs :
    \/ DNSCreateCall(p)
    \/ DNSCreateApi(p)
    \/ DNSCreateMaps(p)
    \/ DNSDeleteCall(p)
    \/ DNSDeleteApi(p)
    \/ DNSDeleteMaps(p)

SpecDns == DnsInit /\ [][DnsNext]_vars

(***************************************************************************)
(* Specification of the mailbox provisioning: two callers of               *)
(* CreateMailDomain and DeleteMailDomain, the store and the provider. The  *)
(* service has no DNS adapter, or one whose registry is empty, or one      *)
(* whose registry holds the record of one earlier CreateDNSRecord call.    *)
(***************************************************************************)
Sub1 == Sample(0)

\* The adapter after CreateDNSRecord(1), by an earlier caller, has returned
\* with the subdomain Sub1 and the provider's record 1.
OneRecord ==
  /\ subdomainMap = Put(EmptyMap, Sub1, 1)
  /\ portMap = Put(EmptyMap, 1, Sub1)
  /\ recordMap = Put(EmptyMap, Sub1, Itoa(1))
  /\ provRecords = {[id |-> 1, sub |-> Sub1, type |-> "A"]}
  /\ provNextId = 2
  /\ dnsLog = {[op |-> "create", type |-> "A", sub |-> Sub1, id |-> 1,
                by |-> "p1", n |-> 1, ok |-> TRUE]}
  /\ lastGen = [NoGen EXCEPT !.sub = Sub1, !.err = ""]

ProvInit ==
  /\ rows = {} /\ nextId = 1
  /\ \/ dnsNil = TRUE /\ NoRecords
     \/ dnsNil = FALSE /\ NoRecords
     \/ dnsNil = FALSE /\ OneRecord
  /\ NoCalls
  /\ NoSession
  /\ NoApi
  /\ NoRelay

ProvNext ==
  \E p \in Procs :
    \/ CreateMailDomainCall(p)
    \/ CreateGenerate(p)
    \/ CreateRecords(p)
    \/ CreatePersist(p)
    \/ DeleteMailDomainCall(p)

SpecProv == ProvInit /\ [][ProvNext]_vars

(***************************************************************************)
(* Specification of the DNS adapter with one record registered, for port   *)
(* 1: two callers of CreateDNSRecord and DeleteDNSRecord, and the          *)
(* provider.                                                               *)
(***************************************************************************)
DnsDeleteInit ==
  /\ rows = {} /\ nextId = 1
  /\ dnsNil = FALSE
  /\ OneRecord
  /\ NoCalls
  /\ NoSession
  /\ NoApi
  /\ NoRelay

SpecDnsDelete == DnsDeleteInit /\ [][DnsNext]_vars

(***************************************************************************)
(* Specification of one SMTP session against a store that holds one        *)
(* provisioned mailbox (b@d, owner 7), the state after one CreateMailDomain *)
(* call of caller p1.                                                      *)
(***************************************************************************)
MailboxB == [id |-> 1, userID |-> 7, subdomain |-> Sub1,
             fullDomain |-> Sub1 \o <<".">> \o Domain, recordID |-> Sub1,
             email |-> AddrB]

FirstCreate ==
  [ProcIdle EXCEPT !.pc = "done", !.by = "p1", !.op = "create", !.n = 1,
                   !.userID = 7, !.email = AddrB, !.subdomain = Sub1,
                   !.fullDomain = Sub1 \o <<".">> \o Domain,
                   !.dnsCreates = 1, !.dnsOk = TRUE, !.wrote = TRUE,
                   !.result = <<[MailboxB EXCEPT !.id = 0, !.userID = 0]>>]

ProvAfterOneCreate ==
  /\ rows = {MailboxB}
  /\ nextId = 2
  /\ dnsNil = FALSE
  /\ subdomainMap = EmptyMap /\ portMap = EmptyMap /\ recordMap = EmptyMap
  /\ provRecords = {[id |-> 1, sub |-> Sub1, type |-> "MX"]}
  /\ provNextId = 2
  /\ proc = [p \in Procs |-> ProcIdle]
  /\ calls = [p \in Procs |-> IF p = "p1" THEN 1 ELSE 0]
  /\ dnsLog = {[op |-> "create", type |-> "MX", sub |-> Sub1, id |-> 1,
                by |-> "p1", n |-> 1, ok |-> TRUE]}
  /\ done = [p \in Procs |-> IF p = "p1" THEN <<FirstCreate>> ELSE <<>>]
  /\ lastGen = [NoGen EXCEPT !.sub = Sub1, !.err = ""]

(***************************************************************************)
(* Specification of the provisioning with two tenants, against a store     *)
(* that holds the mailbox b@d of tenant 7 and a provider that holds its    *)
(* record: the callers of CreateMailDomain and DeleteMailDomain are tenant *)
(* 7 and tenant 8.                                                         *)
(***************************************************************************)
TenantsInit ==
  /\ rows = {MailboxB}
  /\ nextId = 2
  /\ dnsNil = FALSE
  /\ subdomainMap = EmptyMap /\ portMap = EmptyMap /\ recordMap = EmptyMap
  /\ provRecords = {[id |-> 1, sub |-> Sub1, type |-> "MX"]}
  /\ provNextId = 2
  /\ dnsLog = {}
  /\ lastGen = NoGen
  /\ NoCalls
  /\ NoSession
  /\ NoApi
  /\ NoRelay

SpecTenants == TenantsInit /\ [][ProvNext]_vars

SmtpInit ==
  /\ script \in Scripts
  /\ wire = Encode(script)
  /\ pc = "cmd"
  /\ mailFrom = <<>> /\ rcptTo = <<>> /\ dataBuffer = <<>>
  /\ out = <<220>>
  /\ saveLog = <<>>
  /\ misaligned = 0
  /\ senderSet = FALSE
  /\ peer = NoPeer
  /\ last = [kind |-> "init", line |-> <<>>, from |-> <<>>, rcpt |-> <<>>,
             sender |-> FALSE, nout |-> 0]

SmtpNext == ReadLineAligned \/ ReadMisaligned \/ ReadData \/ ReadEOF

SmtpInitAll == SmtpInit /\ ProvAfterOneCreate /\ NoApi /\ NoRelay

SpecSmtp == SmtpInitAll /\ [][SmtpNext]_vars

(***************************************************************************)
(* Specification of one SMTP session whose commands come in any order,     *)
(* each command line in a Read of its own, the bytes after DATA in any     *)
(* number of reads, against the same store.                                *)
(***************************************************************************)
CmdInit ==
  /\ script \in CmdScripts
  /\ wire = Encode(script)
  /\ pc = "cmd"
  /\ mailFrom = <<>> /\ rcptTo = <<>> /\ dataBuffer = <<>>
  /\ out = <<220>>
  /\ saveLog = <<>>
  /\ misaligned = 0
  /\ senderSet = FALSE
  /\ peer = NoPeer
  /\ last = [kind |-> "init", line |-> <<>>, from |-> <<>>, rcpt |-> <<>>,
             sender |-> FALSE, nout |-> 0]
  /\ ProvAfterOneCreate
  /\ NoApi
  /\ NoRelay

CmdNext == ReadLineAligned \/ ReadData \/ ReadEOF

SpecCmd == CmdInit /\ [][CmdNext]_vars

(***************************************************************************)
(* Specification of one SMTP session that receives one message: the        *)
(* envelope, each command line in a Read of its own, DATA, a message of    *)
(* Messages (the empty one among them), the "." line, and then QUIT or     *)
(* nothing; the bytes after DATA arrive in any number of reads.            *)
(***************************************************************************)
DataScripts ==
  { <<LHelo, LMail(AddrA), LRcpt(AddrB), LData>> \o m \o <<LDot>> \o e :
      m \in Messages, e \in {<<>>, <<LQuit>>} }

DataInit ==
  /\ script \in DataScripts
  /\ wire = Encode(script)
  /\ pc = "cmd"
  /\ mailFrom = <<>> /\ rcptTo = <<>> /\ dataBuffer = <<>>
  /\ out = <<220>>
  /\ saveLog = <<>>
  /\ misaligned = 0
  /\ senderSet = FALSE
  /\ peer = NoPeer
  /\ last = [kind |-> "init", line |-> <<>>, from |-> <<>>, rcpt |-> <<>>,
             sender |-> FALSE, nout |-> 0]
  /\ ProvAfterOneCreate
  /\ NoApi
  /\ NoRelay

SpecData == DataInit /\ [][CmdNext]_vars
\* The session's goroutine runs as long as handle has not returned: a Read
\* of the connection returns, with bytes that have arrived or, when the
\* client has closed, with io.EOF. A step of the session is one that takes
\* bytes from the connection or ends the session.
Scheduled ==
  /\ pc \in {"cmd", "data"}
  /\ pc' \in {"cmd", "data", "closed"}
  /\ wire' \in {Drop(wire, n) : n \in 0..Len(wire)}
SpecDataFair == SpecData /\ WF_<<pc, wire>>(Scheduled)

(***************************************************************************)
(* Specification of one SMTP connection that goes on after a message or a  *)
(* QUIT: every Read returns exactly one line, in handle and in             *)
(* receiveData, against the same store.                                    *)
(***************************************************************************)
ConnInit ==
  /\ script \in ConnScripts
  /\ wire = Encode(script)
  /\ pc = "cmd"
  /\ mailFrom = <<>> /\ rcptTo = <<>> /\ dataBuffer = <<>>
  /\ out = <<220>>
  /\ saveLog = <<>>
  /\ misaligned = 0
  /\ senderSet = FALSE
  /\ peer = NoPeer
  /\ last = [kind |-> "init", line |-> <<>>, from |-> <<>>, rcpt |-> <<>>,
             sender |-> FALSE, nout |-> 0]
  /\ ProvAfterOneCreate
  /\ NoApi
  /\ NoRelay

ConnNext == ReadLineAligned \/ ReadDataLine \/ ReadEOF

SpecConn == ConnInit /\ [][ConnNext]_vars

(***************************************************************************)
(* Specification of two SMTP connections at the same time, each with a     *)
(* session of its own and both with the server's handler and store: each   *)
(* sends one message for the mailbox b@d, every Read returns one line, and *)
(* the steps of the two sessions interleave in any order.                  *)
(***************************************************************************)
PairInit ==
  /\ script \in PairScripts
  /\ wire = Encode(script)
  /\ pc = "cmd"
  /\ mailFrom = <<>> /\ rcptTo = <<>> /\ dataBuffer = <<>>
  /\ out = <<220>>
  /\ saveLog = <<>>
  /\ misaligned = 0
  /\ senderSet = FALSE
  /\ \E ps \in PeerScripts :
       peer = [NoPeer EXCEPT !.script = ps, !.wire = Encode(ps),
                             !.pc = "cmd", !.out = <<220>>]
  /\ last = [kind |-> "init", line |-> <<>>, from |-> <<>>, rcpt |-> <<>>,
             sender |-> FALSE, nout |-> 0]
  /\ ProvAfterOneCreate
  /\ NoApi
  /\ NoRelay

PairNext ==
  \/ ReadLineAligned \/ ReadDataLine \/ ReadEOF
  \/ PeerReadLine \/ PeerReadData \/ PeerReadEOF

SpecPair == PairInit /\ [][PairNext]_vars

(***************************************************************************)
(* Specification of the management API: two callers of createDomain and    *)
(* deleteDomain, caller p1 a tenant that owns DomainLimit - 1 or            *)
(* DomainLimit mailboxes, caller p2 the administrator, who owns one. The   *)
(* history variables record what happens from here on.                     *)
(***************************************************************************)
\* The subdomain and the address of the mailbox with the row id i
MailboxSub(i) == <<"m","b","o","x","0","0">> \o
                   (IF i < 10 THEN <<"0">> \o Itoa(i) ELSE Itoa(i))
MailboxAddr(i) == Itoa(i) \o <<"@","d">>
Mailbox(i, userID) ==
  [id |-> i, userID |-> userID, subdomain |-> MailboxSub(i),
   fullDomain |-> MailboxSub(i) \o <<".">> \o Domain,
   recordID |-> MailboxSub(i), email |-> MailboxAddr(i)]

\* The store and the provider after k creations by p1 and one by p2
ApiStore(k) ==
  /\ rows = {Mailbox(i, UserOf("p1")) : i \in 1..k}
              \cup {Mailbox(k + 1, UserOf("p2"))}
  /\ nextId = k + 2
  /\ domainCount = [u \in Users |-> IF u = UserOf("p1") THEN k ELSE 1]
  /\ provRecords = {[id |-> i, sub |-> MailboxSub(i), type |-> "MX"] :
                      i \in 1..k + 1}
  /\ provNextId = k + 2

ApiInit ==
  /\ \E k \in {DomainLimit - 1, DomainLimit} : ApiStore(k)
  /\ dnsNil = FALSE
  /\ subdomainMap = EmptyMap /\ portMap = EmptyMap /\ recordMap = EmptyMap
  /\ dnsLog = {}
  /\ lastGen = NoGen
  /\ api = [p \in Procs |-> ApiIdle]
  /\ NoCalls
  /\ NoSession
  /\ NoRelay

ApiNext ==
  \E p \in Procs :
    \/ ApiCreateDomain(p)
    \/ ApiCreateService(p)
    \/ CreateGenerate(p)
    \/ CreateRecords(p)
    \/ CreatePersist(p)
    \/ ApiCreateReturn(p)
    \/ ApiDeleteDomain(p)
    \/ ApiDeleteService(p)
    \/ ApiDeleteReturn(p)

SpecApi == ApiInit /\ [][ApiNext]_vars

(***************************************************************************)
(* Specification of the outbound relay: one Forward call, for any          *)
(* recipient and any answer of the resolver, in any network.               *)
(***************************************************************************)
RelayInit ==
  /\ relay = RelayIdle
  /\ reach \in Worlds
  /\ dials = <<>>
  /\ rows = {} /\ nextId = 1 /\ dnsNil = TRUE
  /\ NoRecords
  /\ NoCalls
  /\ NoSession
  /\ NoApi

RelayNext == ForwardCall \/ RelayProbe \/ RelayDeliver

SpecRelay == RelayInit /\ [][RelayNext]_vars

(***************************************************************************)
(* Specification of the outbound relay among hosts that advertise          *)
(* STARTTLS, accept connections on port 465 only or reject a message at    *)
(* the end of its data: one Forward call, for any recipient and any answer *)
(* of the resolver.                                                        *)
(***************************************************************************)
TlsInit ==
  /\ relay = RelayIdle
  /\ reach \in TlsWorlds
  /\ dials = <<>>
  /\ rows = {} /\ nextId = 1 /\ dnsNil = TRUE
  /\ NoRecords
  /\ NoCalls
  /\ NoSession
  /\ NoApi

SpecTls == TlsInit /\ [][RelayNext]_vars

(***************************************************************************)
(* Specification of the choice of ports: one Forward call for a recipient  *)
(* at a domain that contains a provider's name, or two, or none.           *)
(***************************************************************************)
PortsInit ==
  /\ relay = RelayIdle
  /\ reach \in PortWorlds
  /\ dials = <<>>
  /\ rows = {} /\ nextId = 1 /\ dnsNil = TRUE
  /\ NoRecords
  /\ NoCalls
  /\ NoSession
  /\ NoApi

PortsNext == ForwardAmong \/ RelayProbe \/ RelayDeliver

SpecPorts == PortsInit /\ [][PortsNext]_vars

(***************************************************************************)
(* Properties of the SMTP session.                                         *)
(***************************************************************************)
\* The lines of a message joined by CRLF: the bytes between DATA and the
\* line break that starts the "." line.
Join(lines) == IF lines = <<>> THEN <<>> ELSE TrimSuffix(Encode(lines), CRLF)

\* The lines after the first empty line of a message.
BodyLines(m) ==
  IF \E i \in 1..Len(m) : m[i] = <<>>
  THEN SubSeq(m, (CHOOSE i \in 1..Len(m) :
                     m[i] = <<>> /\ \A j \in 1..i - 1 : m[j] # <<>>) + 1, Len(m))
  ELSE <<>>

ParseableMessages == {m \in Messages : ReadMessage(Join(m)).ok}

AllSavesOk == \A i \in 1..Len(saveLog) : saveLog[i].ok

\* 220, then 250 to HELO, MAIL FROM and every RCPT TO, 354 to DATA, 250 to
\* the message, 221 to QUIT.
ExpectedReplies(rs) ==
  <<220, 250, 250>> \o [i \in 1..Len(rs) |-> 250] \o <<354, 250, 221>>

\* C1: a session that sends HELO, MAIL FROM, RCPT TO (one or more), DATA, a
\* parseable message, the "." line (and QUIT), against a store whose SaveMail
\* succeeds, is answered 250 at each step (354 to DATA) and 250 for the
\* message, and the store has received exactly one SaveMail call, with the
\* sender, all the recipients in order, and the accumulated message.
C1_ValidSessionSavesOnce ==
  \A rs \in RcptSeqs, m \in ParseableMessages :
    (script = Transaction(rs, m) /\ pc = "closed" /\ AllSavesOk) =>
      /\ out = ExpectedReplies(rs)
      /\ Len(saveLog) = 1
      /\ saveLog[1].from = AddrA
      /\ saveLog[1].to = rs
      /\ saveLog[1].raw = Join(m)
      /\ saveLog[1].body = Join(BodyLines(m))

\* C2: an RCPT TO command processed while no MAIL FROM has been accepted
\* since the last reset is not answered 250 and leaves the recipient list
\* as it was.
C2_RcptNeedsSender ==
  (last.kind = "cmd" /\ Verb(last.line) = <<"R","C","P","T">> /\ ~last.sender) =>
    /\ out[last.nout + 1] # 250
    /\ rcptTo = last.rcpt

\* C3: whatever the reads the payload after DATA arrives in, once a read
\* has returned the last byte of the "." line receiveData has ended and
\* processMailData was handed the message bytes of the payload.
C3_FragmentedData ==
  \A rs \in RcptSeqs, m \in Messages :
    (script = Transaction(rs, m) /\ misaligned = 0 /\ last.kind = "data"
       /\ wire = Encode(<<LQuit>>)) =>
      /\ pc = "cmd"
      /\ last.line = Join(m)

\* The owner recorded for an address: the userID of the row of mail_domains
\* whose email equals it, 0 when there is none.
RecordedOwner(addr) ==
  IF \E r \in rows : r.email = addr
  THEN (CHOOSE r \in rows : r.email = addr).userID ELSE 0

\* C12: every SaveMail call carries as owner the userID of the row whose
\* email equals the first recipient, and 0 when there is no such row, no
\* recipient or the lookup failed; and a message that parses is handed to
\* SaveMail whether or not its first recipient has a row, and answered 250
\* when SaveMail succeeds.
C12_OwnerResolution ==
  /\ \A i \in 1..Len(saveLog) :
       saveLog[i].userID =
         IF saveLog[i].to # <<>> /\ ~saveLog[i].lookupErr
         THEN RecordedOwner(saveLog[i].to[1]) ELSE 0
  /\ (last.kind = "data" /\ pc = "cmd" /\ ReadMessage(last.line).ok) =>
       /\ Len(saveLog) = 1
       /\ out[Len(out)] = IF saveLog[1].ok THEN 250 ELSE 550

\* A message to an address without a row has been saved with owner 0 and
\* answered 250.
C12_Witness ==
  /\ Len(saveLog) = 1 /\ saveLog[1].to # <<>> /\ ~saveLog[1].lookupErr
  /\ saveLog[1].to[1] \in {AddrC, AddrUpperB}
  /\ saveLog[1].userID = 0 /\ saveLog[1].ok
  /\ last.kind = "data" /\ out[Len(out)] = 250

\* The reply the session writes to the command line that `last` holds
LastReply == out[last.nout + 1]
\* The Read before was the one that completed the data.
DataCompleted == last.kind = "data" /\ pc = "cmd"

\* C13: when the bytes accumulated after DATA do not parse as a message, the
\* session replies 550, makes no SaveMail call, is left without sender and
\* recipients and in handle's loop; and the command line read next on the
\* connection (NOOP) is processed and answered.
C13_ParseFailureRejects ==
  /\ (DataCompleted /\ ~ReadMessage(last.line).ok) =>
       /\ out[Len(out)] = 550 /\ Len(out) = last.nout + 1
       /\ saveLog = <<>>
       /\ mailFrom = <<>> /\ rcptTo = <<>> /\ dataBuffer = <<>>
  /\ (last.kind = "cmd" /\ last.line = LNoop /\ out[last.nout] = 550
        /\ saveLog = <<>>) =>
       /\ Len(out) = last.nout + 1 /\ LastReply = 250
       /\ pc = "cmd"

\* A message that does not parse was rejected and the NOOP after it answered.
C13_Witness ==
  /\ last.kind = "cmd" /\ last.line = LNoop /\ out[last.nout] = 550
  /\ saveLog = <<>> /\ LastReply = 250 /\ pc = "cmd"

\* The command lines a session of SpecCmd reads are the lines of its
\* script in order, each answered by one reply: the line `last` holds is
\* script[last.nout], and the lines before it are those read before it.
NoGreetingYet ==
  \A i \in 1..last.nout - 1 :
    Verb(script[i]) \notin {<<"H","E","L","O">>, <<"E","H","L","O">>}

\* C17: DATA is answered 354, and the session starts to read message data,
\* only when it holds a recipient; DATA with no recipient is answered with
\* an error and the session goes on reading commands.
C17_DataNeedsRecipient ==
  (last.kind = "cmd" /\ Verb(last.line) = <<"D","A","T","A">>) =>
    /\ (LastReply = 354 \/ pc = "data") => last.rcpt # <<>>
    /\ last.rcpt = <<>> => (LastReply >= 400 /\ pc = "cmd")

\* C18: MAIL FROM given before any HELO/EHLO, or while a sender is stored,
\* is rejected and leaves the stored sender as it was.
C18_MailOnlyWhenReady ==
  (/\ last.kind = "cmd" /\ Verb(last.line) = <<"M","A","I","L">>
   /\ (NoGreetingYet \/ last.from # <<>>)) =>
    /\ LastReply >= 400
    /\ mailFrom = last.from

\* C19: HELO and EHLO, in any letter case and at any point, are answered
\* 250 and leave the session without sender and without recipients.
C19_HeloResets ==
  (last.kind = "cmd"
     /\ Verb(last.line) \in {<<"H","E","L","O">>, <<"E","H","L","O">>}) =>
    /\ LastReply = 250
    /\ mailFrom = <<>>
    /\ rcptTo = <<>>

\* The place of the last RSET in the script, 0 when it has none, and the
\* sender and the recipients the script gives after it.
LastRset ==
  IF \E i \in 1..Len(script) : script[i] = LRset
  THEN CHOOSE i \in 1..Len(script) :
         script[i] = LRset /\ \A k \in i + 1..Len(script) : script[k] # LRset
  ELSE 0
Addrs == {AddrA, AddrB, AddrC, AddrUpperB}
IsMailLine(l) == \E a \in Addrs : l = LMail(a)
IsRcptLine(l) == \E a \in Addrs : l = LRcpt(a)
AddrOf(l) == CHOOSE a \in Addrs : l \in {LMail(a), LRcpt(a)}
AddrsOf(ls) == [i \in 1..Len(ls) |-> AddrOf(ls[i])]
AfterRset == SubSeq(script, LastRset + 1, Len(script))
SenderAfterRset ==
  IF SelectSeq(AfterRset, IsMailLine) = <<>> THEN <<>>
  ELSE AddrOf(SelectSeq(AfterRset, IsMailLine)[Len(SelectSeq(AfterRset, IsMailLine))])
RcptsAfterRset == AddrsOf(SelectSeq(AfterRset, IsRcptLine))

\* C20: RSET is answered 250 and leaves the session without sender,
\* recipients and data, reading commands; the message a session completes
\* after an RSET is handed on with the sender and the recipients given
\* after the RSET, and no others.
C20_RsetClears ==
  /\ (last.kind = "cmd" /\ Verb(last.line) = <<"R","S","E","T">>) =>
       /\ LastReply = 250 /\ Len(out) = last.nout + 1
       /\ mailFrom = <<>> /\ rcptTo = <<>> /\ dataBuffer = <<>>
       /\ pc = "cmd"
  /\ (LastRset > 0 /\ saveLog # <<>>) =>
       /\ Len(saveLog) = 1
       /\ saveLog[1].from = SenderAfterRset
       /\ saveLog[1].to = RcptsAfterRset

\* A sender was given, then RSET, then a recipient, and the message was
\* handed on without sender and with that recipient.
C20_Witness ==
  /\ Len(script) > MaxCmds
  /\ script[1] = LMail(AddrA) /\ script[2] = LRset /\ script[3] = LRcpt(AddrB)
  /\ Len(saveLog) = 1
  /\ saveLog[1].from = <<>> /\ saveLog[1].to = <<AddrB>>
  /\ DataCompleted

\* The session has written the reply 221.
Replied221 == \E i \in 1..Len(out) : out[i] = 221

\* C21: QUIT is answered 221, once, and ends the session: QUIT is the last
\* line the session processes, 221 the last reply it writes, and the QUIT
\* and everything after it make no SaveMail call.
C21_QuitIsTerminal ==
  /\ []((last.kind = "cmd" /\ Verb(last.line) = <<"Q","U","I","T">>) =>
          Replied221)
  /\ [](Replied221 =>
          /\ pc = "closed"
          /\ last.kind = "cmd" /\ Verb(last.line) = <<"Q","U","I","T">>
          /\ Len(out) = last.nout + 1 /\ LastReply = 221
          /\ Cardinality({i \in 1..Len(out) : out[i] = 221}) = 1)
  /\ [][Replied221' => saveLog' = saveLog]_vars
  /\ [][Replied221 => UNCHANGED <<out, saveLog, wire, mailFrom, rcptTo, pc>>]_vars

\* QUIT was answered after a message had been saved, and the lines the
\* client sent after it are unread.
C21_Witness ==
  /\ Replied221 /\ pc = "closed"
  /\ wire # <<>>
  /\ saveLog # <<>>

\* The verbs processCommand knows.
KnownVerbs ==
  { <<"H","E","L","O">>, <<"E","H","L","O">>, <<"M","A","I","L">>,
    <<"R","C","P","T">>, <<"D","A","T","A">>, <<"Q","U","I","T">>,
    <<"R","S","E","T">>, <<"N","O","O","P">> }

\* C22: NOOP is answered 250 and a verb the session does not know 500, and
\* either leaves the sender, the recipients and the data buffer as they
\* were and the session reading commands.
C22_NoopAndUnknownKeepState ==
  (/\ last.kind = "cmd"
   /\ (Verb(last.line) = <<"N","O","O","P">> \/ Verb(last.line) \notin KnownVerbs)) =>
    /\ Len(out) = last.nout + 1
    /\ LastReply = IF Verb(last.line) = <<"N","O","O","P">> THEN 250 ELSE 500
    /\ mailFrom = last.from
    /\ rcptTo = last.rcpt
    /\ senderSet = last.sender
    /\ dataBuffer = <<>>
    /\ pc = "cmd"

\* NOOP was processed by a session that holds a sender and two recipients.
C22_Witness ==
  /\ last.kind = "cmd" /\ last.line = LNoop
  /\ LastReply = 250
  /\ mailFrom = AddrA /\ rcptTo = <<AddrB, AddrC>>

\* A verb the session does not know was processed by a session that holds
\* recipients.
C22_WitnessUnknown ==
  /\ last.kind = "cmd" /\ last.line = LVrfy
  /\ LastReply = 500
  /\ rcptTo # <<>>

\* In a script of SpecConn: the DATA lines of the messages that parse, the
\* k-th of them, the number of lines the session has read, and the sender
\* and the recipients given between the "." line before the DATA line at i
\* and that line.
OkData ==
  {i \in 1..Len(script) - 1 : script[i] = LData /\ script[i + 1] = LSubject}
NthOkData(k) ==
  CHOOSE i \in OkData : Cardinality({j \in OkData : j < i}) = k - 1
LinesRead ==
  CHOOSE c \in 0..Len(script) : wire = Encode(SubSeq(script, c + 1, Len(script)))
EnvelopeOf(i) ==
  SubSeq(script,
         1 + (IF \E j \in 1..i - 1 : script[j] = LDot
              THEN CHOOSE j \in 1..i - 1 :
                     script[j] = LDot /\ \A k \in j + 1..i - 1 : script[k] # LDot
              ELSE 0),
         i - 1)
SenderGiven(i) ==
  IF SelectSeq(EnvelopeOf(i), IsMailLine) = <<>> THEN <<>>
  ELSE AddrOf(SelectSeq(EnvelopeOf(i), IsMailLine)
                [Len(SelectSeq(EnvelopeOf(i), IsMailLine))])
RcptsGiven(i) == AddrsOf(SelectSeq(EnvelopeOf(i), IsRcptLine))

\* C23: when the data of a message that parses is complete, the session
\* has handed it to the handler once and writes one reply, 250 when the
\* handler succeeded and 550 when it failed, and is left without sender,
\* recipients and data; every message of a connection is handed on with
\* the sender and the recipients given since the message before it.
C23_OneReplyThenReset ==
  /\ (DataCompleted /\ ReadMessage(last.line).ok) =>
       /\ Len(out) = last.nout + 1
       /\ Len(saveLog) = Cardinality({i \in OkData : i < LinesRead})
       /\ out[Len(out)] = IF saveLog[Len(saveLog)].ok THEN 250 ELSE 550
       /\ mailFrom = <<>> /\ rcptTo = <<>> /\ dataBuffer = <<>>
  /\ \A k \in 1..Len(saveLog) :
       /\ saveLog[k].from = SenderGiven(NthOkData(k))
       /\ saveLog[k].to = RcptsGiven(NthOkData(k))

\* A second message was completed on a connection: the first, with sender
\* and recipient, failed in the handler and was answered 550; the second
\* was handed on with the one recipient given after the first.
C23_Witness ==
  /\ DataCompleted
  /\ Len(saveLog) = 2
  /\ ~saveLog[1].ok /\ saveLog[1].from = AddrA /\ saveLog[1].to = <<AddrB>>
  /\ saveLog[2].ok /\ saveLog[2].from = <<>> /\ saveLog[2].to = <<AddrC>>
  /\ out[Len(out)] = 250

\* C24: for every message that parses, GetMailDomainByEmail is called
\* exactly once, with the first recipient, and SaveMail receives all the
\* recipients in the order of their RCPT TO lines, the sender, the subject,
\* the body and the raw bytes.
C24_OneLookupFullPersist ==
  \A k \in 1..Len(saveLog) :
    /\ saveLog[k].to = RcptsGiven(NthOkData(k))
    /\ saveLog[k].from = SenderGiven(NthOkData(k))
    /\ saveLog[k].subject = <<"s">>
    /\ saveLog[k].body = LBody
    /\ saveLog[k].raw = Join(<<LSubject, <<>>, LBody>>)
    /\ Len(saveLog[k].looked) = 1
    /\ saveLog[k].looked[1] = saveLog[k].to[1]

\* What a session r = [s, out] is after the command lines given, each
\* processed as a command of its own.
RECURSIVE RunLines(_, _)
RunLines(r, lines) ==
  IF lines = <<>> THEN r
  ELSE RunLines([s |-> processCommand(r.s, Head(lines)).s,
                 out |-> r.out \o processCommand(r.s, Head(lines)).replies],
                Tail(lines))
NewSession ==
  [s |-> [mailFrom |-> <<>>, rcptTo |-> <<>>, dataBuffer |-> <<>>],
   out |-> <<220>>]

\* C25: whatever the reads the command lines arrive in, when the session
\* has read the first k lines of its script, none of them DATA, it has
\* written the replies and holds the sender and the recipients of these k
\* commands processed one by one.
C25_ReadBoundariesIrrelevant ==
  \A k \in 0..Len(script) :
    (/\ pc = "cmd"
     /\ wire = Encode(SubSeq(script, k + 1, Len(script)))
     /\ \A i \in 1..k : script[i] \notin {LData, LQuit}) =>
      /\ out = RunLines(NewSession, SubSeq(script, 1, k)).out
      /\ mailFrom = RunLines(NewSession, SubSeq(script, 1, k)).s.mailFrom
      /\ rcptTo = RunLines(NewSession, SubSeq(script, 1, k)).s.rcptTo

\* The transactions a session has completed: DATA answered 354 and the
\* message answered 250.
Completed(o) ==
  Cardinality({i \in 1..Len(o) - 1 : o[i] = 354 /\ o[i + 1] = 250})
\* The messages the store has persisted, in order.
Persisted == SelectSeq(saveLog, LAMBDA e : e.ok)
\* The sender, the recipients and the message lines a script gives.
ScriptSender(sc) == AddrOf(SelectSeq(sc, IsMailLine)[1])
ScriptRcpts(sc) == AddrsOf(SelectSeq(sc, IsRcptLine))
ScriptMessage(sc) ==
  SubSeq(sc, 1 + (CHOOSE i \in 1..Len(sc) : sc[i] = LData),
         (CHOOSE i \in 1..Len(sc) : sc[i] = LDot) - 1)
\* The persisted message e is the one of the script sc.
MessageOfScript(e, sc) ==
  /\ e.from = ScriptSender(sc)
  /\ e.to = ScriptRcpts(sc)
  /\ e.body = Join(BodyLines(ScriptMessage(sc)))
  /\ e.raw = Join(ScriptMessage(sc))
\* s is the beginning of t.
IsPrefix(s, t) == Len(s) <= Len(t) /\ s = SubSeq(t, 1, Len(s))

\* C34: with two sessions at the same time, in any interleaving, the store
\* holds one message for every transaction a session completed, two when
\* both did, also when the two messages are the same; each is the message of
\* its session, with that session's sender, recipients and body; and each
\* session holds only the sender and the recipients of its own commands.
C34_SessionsIndependent ==
  /\ Len(Persisted) = Completed(out) + Completed(peer.out)
  /\ (Completed(out) = 1 /\ Completed(peer.out) = 0) =>
       MessageOfScript(Persisted[1], script)
  /\ (Completed(out) = 0 /\ Completed(peer.out) = 1) =>
       MessageOfScript(Persisted[1], peer.script)
  /\ (Completed(out) = 1 /\ Completed(peer.out) = 1) =>
       \/ /\ MessageOfScript(Persisted[1], script)
          /\ MessageOfScript(Persisted[2], peer.script)
       \/ /\ MessageOfScript(Persisted[1], peer.script)
          /\ MessageOfScript(Persisted[2], script)
  /\ mailFrom \in {<<>>, ScriptSender(script)}
  /\ IsPrefix(rcptTo, ScriptRcpts(script))
  /\ peer.mailFrom \in {<<>>, ScriptSender(peer.script)}
  /\ IsPrefix(peer.rcptTo, ScriptRcpts(peer.script))

\* Both sessions have ended, the second was the first to complete its
\* message, and the store holds the two messages, of different senders.
C34_Witness ==
  /\ pc = "closed" /\ peer.pc = "closed"
  /\ Completed(out) = 1 /\ Completed(peer.out) = 1
  /\ Len(saveLog) = 2
  /\ saveLog[1].from = AddrC /\ saveLog[1].body = LOther
  /\ saveLog[2].from = AddrA /\ saveLog[2].to = <<AddrB, AddrC>>

\* The bytes the session has in its data buffer or has still to read hold a
\* line that consists of "." only.
DotLineSent ==
  \/ HasPrefix(dataBuffer \o wire, <<".", CR, LF>>)
  \/ Contains(dataBuffer \o wire, DotCRLF)

\* C35: once the session is in receiveData and the client has sent the "."
\* line, the session leaves receiveData and writes the reply 250 or 550 to
\* the message, also when the "." line is the first after DATA and when a
\* Read returns bytes of the next command with it.
C35_DotLineEndsData ==
  (pc = "data" /\ DotLineSent) ~>
    (DataCompleted /\ out[Len(out)] \in {250, 550})

(***************************************************************************)
(* Properties of the provisioning services.                                *)
(***************************************************************************)
\* The calls of caller p that have returned
Returned(p) == {done[p][i] : i \in 1..Len(done[p])}
AllReturned == UNION {Returned(p) : p \in Procs}

\* No caller but p has made a call.
Alone(p) == \A q \in Procs \ {p} : calls[q] = 0 /\ proc[q].pc = "idle"

\* C4: two successive CreateMailDomain calls for the same address, of a
\* service with a DNS adapter and with no other call in between, return the
\* same MailDomain, leave exactly one row for the address and issue one
\* CreateRecord request in total.
C4_CreateTwiceSame ==
  \A p \in Procs : \A i \in 1..Len(done[p]) - 1 :
    (~dnsNil /\ Alone(p)
       /\ done[p][i].op = "create" /\ done[p][i + 1].op = "create"
       /\ done[p][i].email = done[p][i + 1].email
       /\ done[p][i].err = "" /\ done[p][i + 1].err = "") =>
      /\ done[p][i].result = done[p][i + 1].result
      /\ Cardinality({r \in rows : r.email = done[p][i].email}) = 1
      /\ done[p][i].dnsCreates + done[p][i + 1].dnsCreates = 1

\* C5: a CreateMailDomain call whose CreateRecord request succeeded and
\* whose row was not inserted has returned the persistence error and has
\* issued exactly one DeleteRecord request.
C5_CompensatingDelete ==
  \A e \in AllReturned :
    (e.op = "create" /\ e.dnsOk /\ ~e.wrote) =>
      /\ e.err = "persist"
      /\ e.dnsDeletes = 1

\* C6: a GenerateSubdomain call that returns a value returns one that was
\* not a key of the registry when it ran, and a call whose 100 samples were
\* all keys of the registry returns the error that follows the loop.
C6_GenerateAvoidsRegistry ==
  /\ lastGen.err = "" => lastGen.sub \notin lastGen.reg
  /\ lastGen.exhausted => lastGen.err = "exhausted" /\ lastGen.sub = <<>>

\* A call has passed over a registered sample and returned the next one.
C6_Witness == lastGen.rejected /\ lastGen.err = "" /\ lastGen.sub # <<>>

\* C7: two CreateMailDomain calls in progress at the same time that have
\* both issued their CreateRecord request have issued it for different
\* subdomains.
C7_ConcurrentCreatesDistinct ==
  \A p \in Procs : \A q \in Procs \ {p} :
    (proc[p].op = "create" /\ proc[q].op = "create"
       /\ proc[p].dnsCreates = 1 /\ proc[q].dnsCreates = 1) =>
      proc[p].subdomain # proc[q].subdomain

\* C8: a CreateMailDomain call whose CreateRecord request failed has
\* returned an error and no MailDomain, has inserted no row and has added
\* nothing to the registry.
C8_ProviderFailureAborts ==
  \A e \in AllReturned :
    (e.op = "create" /\ e.dnsCreates = 1 /\ ~e.dnsOk) =>
      /\ e.err = "dns" /\ e.result = <<>>
      /\ ~e.wrote /\ ~e.registered
      /\ \A r \in rows : r.email = e.email =>
           \E f \in AllReturned : f # e /\ f.op = "create" /\ f.wrote
                                  /\ f.email = e.email

C8_Witness ==
  \E e \in AllReturned : e.op = "create" /\ e.dnsCreates = 1 /\ ~e.dnsOk

\* C9: a DeleteMailDomain call of a service with a DNS adapter that has
\* deleted a row has then issued a DeleteRecord request, and has returned
\* nil whatever the provider answered; a call whose row deletion failed
\* has issued none.
C9_DeleteThenDns ==
  \A e \in AllReturned :
    (e.op = "delete" /\ ~dnsNil) =>
      /\ (e.wrote => e.dnsDeletes = 1 /\ e.err = "")
      /\ (e.err # "" => e.dnsDeletes = 0 /\ ~e.wrote)

\* C10: no two rows of mail_domains share the full domain, the address or
\* the subdomain, and the provider holds at most one MX record for the
\* subdomain of a row.
C10_IdentityInvariants ==
  /\ \A r1 \in rows : \A r2 \in rows \ {r1} :
       /\ r1.fullDomain # r2.fullDomain
       /\ r1.email # r2.email
       /\ r1.subdomain # r2.subdomain
  /\ \A r \in rows :
       Cardinality({x \in provRecords :
                      x.sub = r.subdomain /\ x.type = "MX"}) <= 1

\* C26: of a service with a DNS adapter, the subdomain of a returned
\* CreateMailDomain call is a key of the registry (subdomainMap, recordMap)
\* if and only if the call has inserted its row.
C26_RegisteredIffPersisted ==
  ~dnsNil =>
    \A e \in AllReturned :
      e.op = "create" =>
        /\ e.wrote <=> e.subdomain \in DOMAIN recordMap
        /\ e.wrote <=> e.subdomain \in DOMAIN subdomainMap

\* The CreateMailDomain call e has inserted its row after a CreateRecord
\* request of the same call for the row's subdomain had succeeded.
RowAfterRecord(e) ==
  /\ e.dnsCreates = 1 /\ e.dnsOk
  /\ \E x \in dnsLog : /\ x.op = "create" /\ x.ok
                        /\ x.by = e.by /\ x.n = e.n
                        /\ x.sub = e.subdomain
\* Every row was inserted by a returned CreateMailDomain call.
RowsAreCreated ==
  \A r \in rows : \E e \in AllReturned :
    /\ e.op = "create" /\ e.wrote
    /\ e.email = r.email /\ e.subdomain = r.subdomain

\* C27 as claimed: every row of mail_domains was inserted by a
\* CreateMailDomain call in which a CreateRecord request for the row's
\* subdomain had succeeded before.
C27_RowNeverWithoutRecord ==
  /\ RowsAreCreated
  /\ \A e \in AllReturned : (e.op = "create" /\ e.wrote) => RowAfterRecord(e)

\* C27, for a service that has a DNS adapter: every row of mail_domains was
\* inserted by a CreateMailDomain call in which a CreateRecord request for
\* the row's subdomain had succeeded before; a service without an adapter
\* inserts its rows with no request to the provider.
C27_RowAfterRecordWithAdapter ==
  /\ RowsAreCreated
  /\ \A e \in AllReturned :
       (e.op = "create" /\ e.wrote) =>
         IF dnsNil THEN e.dnsCreates = 0 /\ dnsLog = {}
         ELSE RowAfterRecord(e)

\* A service with an adapter holds a row.
C27_Witness ==
  /\ ~dnsNil
  /\ \E e \in AllReturned : e.op = "create" /\ e.wrote /\ RowAfterRecord(e)
  /\ rows # {}

\* The call of p that returns in this step, when one does.
Returning(p) == done'[p][Len(done'[p])]

\* C38: a row of mail_domains disappears only in a DeleteMailDomain call of
\* the tenant that owns it, for its id; and a CreateMailDomain call for an
\* address that a row of another tenant holds when the call is made leaves
\* the rows as they are, that row and its owner included, and asks the
\* provider for no record.
C38_OtherTenantsUntouched ==
  [][/\ \A r \in rows \ rows' :
          \E p \in Procs :
            /\ Len(done'[p]) = Len(done[p]) + 1
            /\ Returning(p).op = "delete"
            /\ Returning(p).id = r.id
            /\ UserOf(p) = r.userID
     /\ \A p \in Procs :
          (/\ proc[p].pc = "idle"
           /\ Len(done'[p]) = Len(done[p]) + 1
           /\ Returning(p).op = "create"
           /\ \E r \in rows :
                r.email = Returning(p).email /\ r.userID # UserOf(p)) =>
            /\ rows' = rows
            /\ provRecords' = provRecords
            /\ dnsLog' = dnsLog
            /\ Returning(p).dnsCreates = 0]_vars

\* A tenant has asked for the address of another tenant's mailbox, and got
\* that mailbox, and has asked to delete the other tenant's row, with
\* success and without effect: the row is there, with its owner.
C38_Witness ==
  \E p \in Procs, r \in rows :
    /\ r.userID # UserOf(p)
    /\ Len(done[p]) = 2
    /\ done[p][1].op = "create" /\ done[p][1].email = r.email
    /\ done[p][1].err = "" /\ done[p][1].result = <<r>>
    /\ done[p][2].op = "delete" /\ done[p][2].id = r.id
    /\ done[p][2].err = "" /\ ~done[p][2].wrote
    /\ Cardinality(rows) = 1

\* C39: in every state of the DNS adapter the three maps agree: the
\* subdomains of subdomainMap are those of recordMap, and portMap holds the
\* subdomain s for the port p exactly when subdomainMap holds p for s; also
\* after two CreateDNSRecord calls for one port.
C39_MapsConsistent ==
  /\ DOMAIN subdomainMap = DOMAIN recordMap
  /\ \A p \in DOMAIN portMap :
       portMap[p] \in DOMAIN subdomainMap /\ subdomainMap[portMap[p]] = p
  /\ \A s \in DOMAIN subdomainMap :
       subdomainMap[s] \in DOMAIN portMap /\ portMap[subdomainMap[s]] = s

\* C40: of two DeleteDNSRecord calls for one port at the same time, at most
\* one asks the provider to delete the record: no DeleteRecord request is
\* issued for a record for which an earlier request has succeeded.
C40_DeleteIssuedOnce ==
  [][\A e \in dnsLog' \ dnsLog :
       e.op = "delete" =>
         ~\E f \in dnsLog : f.op = "delete" /\ f.id = e.id /\ f.ok]_vars

(***************************************************************************)
(* Properties of the outbound relay.                                       *)
(***************************************************************************)
\* The part of a recipient address after its last "@", <<>> without one.
RecipientDomain(to) ==
  IF \E i \in 1..Len(to) : to[i] = "@"
  THEN SubSeq(to, 1 + CHOOSE i \in 1..Len(to) :
                        to[i] = "@" /\ \A k \in i + 1..Len(to) : to[k] # "@",
              Len(to))
  ELSE <<>>
\* Two names are equal up to the case of their letters.
SameName(a, b) ==
  /\ Len(a) = Len(b)
  /\ \A i \in 1..Len(a) :
       \/ a[i] = b[i]
       \/ \E k \in 1..Len(LowerLetters) :
            {a[i], b[i]} = {LowerLetters[k], UpperLetters[k]}

\* C14: Forward of a recipient whose domain equals the local domain, in
\* whatever case, returns an error at once: no MX lookup was made and no
\* connection was tried.
C14_LocalRecipientRejected ==
  (relay.pc # "idle" /\ SameName(RecipientDomain(relay.to), LocalDomain)) =>
    /\ relay.pc = "done"
    /\ relay.err # ""
    /\ relay.lookups = 0
    /\ dials = <<>>

C14_Witness ==
  /\ relay.pc = "done"
  /\ relay.to = RcptLocalUpper
  /\ relay.err = "local"
  /\ relay.lookups = 0 /\ dials = <<>>

\* The ports sendToServerDirect uses for a domain no provider is known for.
DefaultPorts == {providerPorts[DefaultKey][i] :
                   i \in 1..Len(providerPorts[DefaultKey])}
\* The delivery attempts among the connections tried.
Deliveries == {i \in 1..Len(dials) : dials[i].kind = "deliver"}

\* C15: when the lookup of the recipient's domain gave an error or no
\* record, and the domain itself carries the whole SMTP exchange on a
\* default port, Forward returns nil, having sent the message to the domain
\* as the only host it tried.
C15_NoMxFallsBackToDomain ==
  (/\ relay.pc = "done"
   /\ relay.answer \in {"err", "empty"}
   /\ \E q \in DefaultPorts : reach[relay.domain][q] = "smtp") =>
    /\ relay.err = ""
    /\ relay.sent
    /\ relay.cands = <<relay.domain>>
    /\ \A i \in 1..Len(dials) : dials[i].host = relay.domain

\* Every port of every host Forward has as a candidate refuses connections.
AllUnreachable ==
  \A i \in 1..Len(relay.cands), q \in SmtpPorts :
    reach[relay.cands[i]][q] = "closed"

ProbedOpen(i) ==
  \E k \in 1..i - 1 :
    /\ dials[k].kind = "probe" /\ dials[k].res = "accepted"
    /\ dials[k].cand = dials[i].cand /\ dials[k].port = dials[i].port
\* No probe of the host of the delivery attempt i was accepted.
NoneOpen(i) ==
  \A k \in 1..Len(dials) :
    (dials[k].kind = "probe" /\ dials[k].cand = dials[i].cand) =>
      dials[k].res = "refused"

\* C29 as claimed: every delivery attempt is made on a port that accepted
\* the probe of its host.
C29_HandshakeOnlyOnProbedPorts ==
  \A i \in Deliveries : ProbedOpen(i)

\* C29, with the port of last resort: every delivery attempt is made on a
\* port that accepted the probe of its host, or, when no port of the host
\* accepted its probe, on port 25, and then on no other port of that host.
C29_ProbedPortsOrPort25 ==
  \A i \in Deliveries :
    \/ ProbedOpen(i)
    \/ /\ NoneOpen(i)
       /\ dials[i].port = 25
       /\ \A k \in Deliveries : dials[k].cand = dials[i].cand => k = i

\* The message was sent on port 25 of a host whose recommended ports, 587
\* and 465, had both refused the probe.
C29_Witness ==
  /\ relay.pc = "done" /\ relay.sent
  /\ \E i \in Deliveries :
       /\ dials[i].port = 25 /\ dials[i].res = "ok"
       /\ NoneOpen(i)
       /\ \A k \in 1..Len(dials) : dials[k].kind = "probe" => dials[k].port # 25

\* The connections on which the whole exchange succeeded.
Sent == {i \in Deliveries : dials[i].res = "ok"}

\* C30: the delivery attempt on which the whole exchange succeeds is the
\* last connection of the call: Forward returns nil and no other port or
\* host is contacted, so that at most one attempt of a call succeeds.
C30_StopsAtFirstSuccess ==
  /\ [](\A i \in Sent :
          /\ i = Len(dials)
          /\ relay.pc = "done" /\ relay.err = "" /\ relay.sent)
  /\ [](Cardinality(Sent) <= 1)
  /\ [][Sent # {} => dials' = dials]_vars

\* The message was sent to the first of two hosts; the second would have
\* accepted it as well and was not contacted.
C30_Witness ==
  /\ relay.pc = "done" /\ relay.sent /\ relay.answer = "hosts"
  /\ Len(relay.cands) = 2 /\ relay.cands[1] # relay.cands[2]
  /\ Sent = {Len(dials)}
  /\ \A i \in 1..Len(dials) : dials[i].cand = 1
  /\ reach[relay.cands[2]][25] = "smtp"

\* The delivery attempts that ended with an error.
FailedAttempts == {i \in Deliveries : dials[i].res \notin {"ok", "skip"}}
\* The most recent of them.
LastFailed == CHOOSE i \in FailedAttempts : \A k \in FailedAttempts : k <= i

\* C31: when Forward has returned and every delivery attempt of the call
\* ended with an error, the error Forward returned is the error of the most
\* recent attempt.
C31_ReturnsMostRecentError ==
  (/\ relay.pc = "done"
   /\ Deliveries # {}
   /\ FailedAttempts = Deliveries) =>
    relay.err = dials[LastFailed].res

\* The commands sent after STARTTLS on a connection.
AfterStartTls(cmds) ==
  SubSeq(cmds, 1 + (CHOOSE k \in 1..Len(cmds) : cmds[k] = "STARTTLS"),
         Len(cmds))

\* C32: a delivery attempt sends STARTTLS only on port 587; when the upgrade
\* fails the attempt goes on, on the same connection and unencrypted, with
\* MAIL FROM, and with RCPT TO and DATA when the server accepts them, and
\* the failure is not the attempt's error.
C32_UpgradeOnlyOn587Tolerated ==
  \A i \in Deliveries :
    /\ (\E k \in 1..Len(dials[i].cmds) : dials[i].cmds[k] = "STARTTLS") <=>
         dials[i].tls # "none"
    /\ dials[i].tls # "none" => dials[i].port = 587
    /\ dials[i].tls = "failed" =>
         /\ AfterStartTls(dials[i].cmds) # << >>
         /\ AfterStartTls(dials[i].cmds)[1] = "MAIL"
         /\ dials[i].res \in {"ok", "exchange"}
         /\ reach[dials[i].host][587] = "tlsfail" =>
              /\ dials[i].res = "ok"
              /\ AfterStartTls(dials[i].cmds) =
                   <<"MAIL", "RCPT", "DATA", "QUIT">>

C32_Witness ==
  /\ relay.pc = "done" /\ relay.err = "" /\ relay.sent
  /\ \E i \in Deliveries :
       /\ dials[i].port = 587 /\ dials[i].tls = "failed"
       /\ dials[i].res = "ok"
       /\ dials[i].cmds = <<"HELO", "STARTTLS", "MAIL", "RCPT", "DATA", "QUIT">>
  /\ \E i \in Deliveries : dials[i].port = 25 /\ dials[i].tls = "none"

\* The ports sendToServerDirect got from getPortsForDomain for the c-th
\* candidate host: the ports it probed, in order.
ProbedPorts(c) ==
  [i \in 1..Len(SelectSeq(dials, LAMBDA d : d.kind = "probe" /\ d.cand = c))
     |-> SelectSeq(dials, LAMBDA d : d.kind = "probe" /\ d.cand = c)[i].port]
\* The candidates sendToServerDirect was called for.
Probed == {dials[i].cand : i \in {k \in 1..Len(dials) : dials[k].kind = "probe"}}

\* C33: the ports a relay call tries are a function of the recipient's
\* domain: the list of the provider the domain is equal to, the default list
\* for every other domain; two calls of one Forward for the same domain get
\* the same list.
C33_PortsFunctionOfDomain ==
  /\ \A c \in Probed :
       ProbedPorts(c) =
         IF relay.domain \in DOMAIN providerPorts
         THEN providerPorts[relay.domain]
         ELSE providerPorts[DefaultKey]
  /\ \A c1, c2 \in Probed : ProbedPorts(c1) = ProbedPorts(c2)

\* The delivery attempts that carried MAIL FROM, RCPT TO and DATA and whose
\* end of data the server acknowledged.
Accepted ==
  {i \in Deliveries :
     /\ dials[i].acked
     /\ \A c \in {"MAIL", "RCPT", "DATA"} :
          \E k \in 1..Len(dials[i].cmds) : dials[i].cmds[k] = c}

\* C36: Forward returns nil only when a delivery attempt of the call carried
\* MAIL FROM, RCPT TO and DATA and the server acknowledged the end of the
\* data; not when every port that answered the probe was skipped, and not
\* when the server rejected the message at the end of the data.
C36_SuccessMeansAccepted ==
  (relay.pc = "done" /\ relay.err = "") => Accepted # {}

(***************************************************************************)
(* Properties of the management API.                                       *)
(***************************************************************************)
\* The rows of mail_domains that the tenant userID owns
OwnedBy(userID) == {r \in rows : r.userID = userID}

\* C11: a caller other than the administrator never owns more than
\* DomainLimit (20) rows of mail_domains, whatever the create and delete
\* requests made through the API and their interleaving.
C11_TenantQuota ==
  \A p \in Procs :
    UserEmailOf(p) # AdminEmail =>
      Cardinality(OwnedBy(UserOf(p))) <= DomainLimit

\* C37: when no API request is in progress, every user's domain_count is
\* the number of rows of mail_domains that user owns, whatever create and
\* delete requests were served, a create that returned an existing mailbox
\* and a delete that matched no row among them.
C37_CountIsOwnedRows ==
  (\A p \in Procs : api[p].pc = "idle") =>
    \A u \in Users : domainCount[u] = Cardinality(OwnedBy(u))

=============================================================================
